---- MODULE Spec2Model ----
(***************************************************************************)
(* The alert engine (alert_system.py) and the text analyzer                *)
(* (data_processor.py) of the AI brand monitoring system.                  *)
(*                                                                         *)
(* The relational store is modelled by the columns the code reads:         *)
(*   ai_responses   a sequence of rows, a row's id is its index;           *)
(*                  `recent` is  timestamp >= NOW() - INTERVAL '1 hour'    *)
(*                  at the time a rule is evaluated;                       *)
(*   brand_mentions a bag of rows (ai_response_id, brand_name): the count  *)
(*                  of equal rows;                                         *)
(*   alert_logs     a sequence of rows in insertion (SERIAL id) order.     *)
(* Python's Optional[Alert] is a sequence of length at most one; a call's  *)
(* outcome is a record  [raised, value]  so that an exception leaving a    *)
(* function is visible to its caller.                                      *)
(* Thresholds are floats in the code; here a threshold is the rational     *)
(* [num, den] and  n / t >= num / den  is  n * den >= num * t.  For the    *)
(* counts of this model the float quotient and the float literal round     *)
(* the same way, so the comparison outcomes agree.                         *)
(***************************************************************************)
EXTENDS Integers, Sequences, FiniteSets, TLC

VARIABLES
    ai_responses,     \* table ai_responses
    brand_mentions,   \* table brand_mentions
    alert_logs,       \* table alert_logs
    alert_rules,      \* AlertEngine.alert_rules
    outbox,           \* every attempt of EmailNotifier.send_alert_email
    pc,               \* position of run_alert_checks
    idx,              \* index of the rule the loop of run_alert_checks is at
    alert,            \* the local `alert` of run_alert_checks
    results,          \* the rows the last check fetched
    ops,              \* the store and transport operations of the current cycle
    cycles,           \* completed calls of run_alert_checks
    faults,           \* store and transport failures so far
    schedule,         \* "once": main() runs one cycle; "repeat": it is run again
    first,            \* lengths of alert_logs and outbox after the first call
    sentiment_analyzer, \* TextAnalyzer.sentiment_analyzer
    backend,          \* what the sentiment pipeline does on the text at hand
    call,             \* the outcome of the last analyze_sentiment call
    nlp,              \* TextAnalyzer.nlp
    sentence_model,   \* TextAnalyzer.sentence_model
    request,          \* the extraction operation asked for, with its arguments
    extraction,       \* the outcome of that operation
    brand_keywords,   \* BrandMentionDetector.brand_keywords
    text,             \* the text handed to detect_mentions
    invocations,      \* what the sentiment pipeline does, invocation by invocation
    detected,         \* the outcome of detect_mentions
    config,           \* the brand keywords the detector was constructed with
    pipeline_ops,     \* the process_ai_response calls made so far
    batch,            \* position of batch_process_unprocessed_responses and its rows
    collection        \* ids in the vector database's collection

vars == <<ai_responses, brand_mentions, alert_logs, alert_rules, outbox, pc, idx,
          alert, results, ops, cycles, faults, schedule, first, sentiment_analyzer, backend, call,
          nlp, sentence_model, request, extraction, brand_keywords, text, invocations,
          detected, config, pipeline_ops, batch, collection>>

engineVars == <<ai_responses, brand_mentions, alert_logs, alert_rules, outbox, pc,
                idx, alert, results, ops, cycles, faults, schedule, first>>

analyzerVars == <<sentiment_analyzer, backend, call>>

textVars == <<nlp, sentence_model, request, extraction>>

detectorVars == <<brand_keywords, text, invocations, detected, config>>

pipelineVars == <<pipeline_ops, batch, collection>>

processorVars == <<textVars, detectorVars, pipelineVars>>

----------------------------------------------------------------------------
(* Bounds *)

MaxResponses == 5     \* rows of one AI source in the window (sentiment family)
MaxMatches == 7       \* rows matching the keyword pattern (keyword family)
MaxCycles == 2        \* calls of run_alert_checks
MaxFaults == 2        \* failures of the store or the mail transport in one run
MaxScores == 3        \* label/score entries the sentiment pipeline returns
MaxTexts == 3         \* texts in one batch of extract_topics
MaxTopics == 5        \* n_topics asked of extract_topics
MaxCalls == 2         \* calls of process_ai_response in one run
MaxExcess == 60       \* characters of a response text beyond the first 200

(* Program constants *)

KeywordLimit == 5         \* LIMIT 5
MentionHighCount == 20    \* severity "high" from 20 mentions on
LatestLimit == 200        \* response_text[:200]

----------------------------------------------------------------------------
(* Python values *)

None == <<>>
Some(v) == <<v>>

Return(v) == [raised |-> FALSE, value |-> v]
Raise == [raised |-> TRUE, value |-> None]

\* try: body  except Exception: return handler
TryExcept(body, handler) == IF body.raised THEN Return(handler) ELSE body

Range(s) == {s[i] : i \in DOMAIN s}

\* all orders in which a result set without ORDER BY may be returned
Orders(S) ==
    {s \in [1..Cardinality(S) -> S] : \A i, j \in 1..Cardinality(S) : s[i] = s[j] => i = j}

\* n / t >= th  for the rational th
RatioAtLeast(n, t, th) == n * th.den >= th.num * t

\* c >= th  for a count c
CountAtLeast(c, th) == c * th.den >= th.num

Rat(n, d) == [num |-> n, den |-> d]

----------------------------------------------------------------------------
(* Texts are sequences of characters; PostgreSQL's  text ~* pattern  with
   pattern = '|'.join(keywords)  is a case-insensitive search for any of the
   keywords (keywords without regular-expression metacharacters); the empty
   pattern of an empty keyword list matches every text. *)

Lower(c) ==
    CASE c = "P" -> "p" [] c = "Y" -> "y" [] c = "M" -> "m" [] c = "L" -> "l"
      [] c = "R" -> "r" [] c = "V" -> "v" [] c = "N" -> "n" [] c = "E" -> "e"
      [] c = "G" -> "g" [] c = "O" -> "o" [] c = "S" -> "s" [] c = "A" -> "a"
      [] c = "C" -> "c" [] c = "H" -> "h" [] c = "T" -> "t" [] OTHER -> c

LowerText(t) == [i \in DOMAIN t |-> Lower(t[i])]

IsSubstring(k, t) ==
    \E p \in 0..(Len(t) - Len(k)) : \A i \in 1..Len(k) : t[p + i] = k[i]

RegexMatchCI(keywords, t) ==
    \/ keywords = <<>>
    \/ \E n \in DOMAIN keywords : IsSubstring(LowerText(keywords[n]), LowerText(t))

----------------------------------------------------------------------------
(* The three SELECTs of the alert engine, as the set of rows each returns
   (the first two state no ORDER BY). *)

\* without the test on the timestamp
WindowRowsAnytime(ai_sources) ==
    {i \in DOMAIN ai_responses : ai_responses[i].ai_name \in ai_sources}

WindowRows(ai_sources) ==
    {i \in DOMAIN ai_responses :
        ai_responses[i].recent /\ ai_responses[i].ai_name \in ai_sources}

\* COUNT(*) taken over the analysed responses only
windowed_sentiment_counts_analysed(rule) ==
    LET rows == WindowRows(Range(rule.ai_sources))
        of(a) == {i \in rows : ai_responses[i].ai_name = a}
    IN  {[ai_name |-> a,
          total_count |->
              Cardinality({i \in of(a) : ai_responses[i].response_sentiment # "NULL"}),
          negative_count |->
              Cardinality({i \in of(a) : ai_responses[i].response_sentiment = "negative"})]
         : a \in {ai_responses[i].ai_name : i \in rows}}

windowed_sentiment_counts(rule) ==
    LET rows == WindowRows(Range(rule.ai_sources))
        of(a) == {i \in rows : ai_responses[i].ai_name = a}
    IN  {[ai_name |-> a,
          total_count |-> Cardinality(of(a)),
          negative_count |->
              Cardinality({i \in of(a) : ai_responses[i].response_sentiment = "negative"})]
         : a \in {ai_responses[i].ai_name : i \in rows}}

RECURSIVE SumCopies(_, _)
SumCopies(bag, keys) ==
    IF keys = {} THEN 0
    ELSE LET k == CHOOSE k \in keys : TRUE
         IN  bag[k] + SumCopies(bag, keys \ {k})

windowed_mention_counts(rule) ==
    LET rows == WindowRows(Range(rule.ai_sources))
        joined == {m \in DOMAIN brand_mentions :
                      /\ m.ai_response_id \in rows
                      /\ m.brand_name \in Range(rule.brand_keywords)}
        group(b, a) == {m \in joined :
                           m.brand_name = b /\ ai_responses[m.ai_response_id].ai_name = a}
    IN  {[brand_name |-> g[1], ai_name |-> g[2],
          mention_count |-> SumCopies(brand_mentions, group(g[1], g[2]))]
         : g \in {<<m.brand_name, ai_responses[m.ai_response_id].ai_name>> : m \in joined}}

\* ORDER BY ar.timestamp DESC LIMIT 5: rows are inserted in timestamp order, so
\* the newest row is the one with the greatest id
RECURSIVE NewestFirst(_)
NewestFirst(S) ==
    IF S = {} THEN <<>>
    ELSE LET m == CHOOSE m \in S : \A n \in S : n <= m
         IN  <<m>> \o NewestFirst(S \ {m})

windowed_keyword_matches(rule) ==
    LET matching == {i \in WindowRows(Range(rule.ai_sources)) :
                        \/ RegexMatchCI(rule.brand_keywords, ai_responses[i].response_text)
                        \/ RegexMatchCI(rule.brand_keywords, ai_responses[i].query_text)}
        ordered == NewestFirst(matching)
        n == IF Len(ordered) < KeywordLimit THEN Len(ordered) ELSE KeywordLimit
    IN  [j \in 1..n |->
            [ai_name |-> ai_responses[ordered[j]].ai_name,
             query_text |-> ai_responses[ordered[j]].query_text,
             response_text |-> ai_responses[ordered[j]].response_text,
             timestamp |-> ordered[j]]]

----------------------------------------------------------------------------
(* AlertEngine: the three checks.  `fetched` is what connecting, executing the
   SELECT, fetchall and leaving the `with` blocks gave: ok = FALSE when any of
   them raised (psycopg2.Error), rows = the result list otherwise. *)

\* f"{negative_ratio:.1%}", in tenths of a percent
Percent1(n, t) == (2000 * n + t) \div (2 * t)

\* the text is not cut
TakeAll(t, n) == t

\* t[:n]
Take(t, n) == [i \in 1..(IF Len(t) < n THEN Len(t) ELSE n) |-> t[i]]

\* severity "high" only above 0.8
SentimentSeverityStrict(n, t) ==
    IF 10 * n > 8 * t THEN "high" ELSE "medium"

SentimentSeverity(n, t) == IF RatioAtLeast(n, t, Rat(4, 5)) THEN "high" ELSE "medium"

SentimentAlert(rule, row) ==
    [rule_name |-> rule.name,
     message |-> <<"negative responses surging", row.ai_name,
                   Percent1(row.negative_count, row.total_count)>>,
     severity |-> SentimentSeverity(row.negative_count, row.total_count),
     timestamp |-> cycles,
     data |-> [ai_name |-> row.ai_name,
               total_count |-> row.total_count,
               negative_count |-> row.negative_count,
               negative_ratio |-> Percent1(row.negative_count, row.total_count),
               period |-> "1 hour"]]

\* the ratio has to exceed the threshold
SentimentQualifiesStrict(rule, row) ==
    /\ row.total_count > 0
    /\ row.negative_count * rule.threshold.den > rule.threshold.num * row.total_count

SentimentQualifies(rule, row) ==
    /\ row.total_count > 0
    /\ RatioAtLeast(row.negative_count, row.total_count, rule.threshold)

\* the Alert of the last qualifying row
RECURSIVE SentimentLoopLast(_, _, _)
SentimentLoopLast(rule, rows, i) ==
    IF i > Len(rows) THEN None
    ELSE LET later == SentimentLoopLast(rule, rows, i + 1)
         IN  IF later # None THEN later
             ELSE IF SentimentQualifies(rule, rows[i])
                  THEN Some(SentimentAlert(rule, rows[i]))
                  ELSE None

\* for result in results: ... return Alert(...)   /   return None
RECURSIVE SentimentLoop(_, _, _)
SentimentLoop(rule, rows, i) ==
    IF i > Len(rows) THEN None
    ELSE IF SentimentQualifies(rule, rows[i]) THEN Some(SentimentAlert(rule, rows[i]))
    ELSE SentimentLoop(rule, rows, i + 1)

\* without the try/except
check_sentiment_threshold_uncaught(rule, fetched) ==
    IF fetched.ok THEN Return(SentimentLoop(rule, fetched.rows, 1)) ELSE Raise

check_sentiment_threshold(rule, fetched) ==
    TryExcept(IF fetched.ok THEN Return(SentimentLoop(rule, fetched.rows, 1)) ELSE Raise,
              None)

\* "high" only above 20
MentionSeverityOffByOne(c) == IF c <= MentionHighCount THEN "medium" ELSE "high"

MentionSeverity(c) == IF c < MentionHighCount THEN "medium" ELSE "high"

MentionAlert(rule, row) ==
    [rule_name |-> rule.name,
     message |-> <<"mentions surging", row.brand_name, row.ai_name, row.mention_count>>,
     severity |-> MentionSeverity(row.mention_count),
     timestamp |-> cycles,
     data |-> [brand_name |-> row.brand_name,
               ai_name |-> row.ai_name,
               mention_count |-> row.mention_count,
               period |-> "1 hour"]]

MentionQualifies(rule, row) == CountAtLeast(row.mention_count, rule.threshold)

RECURSIVE MentionLoop(_, _, _)
MentionLoop(rule, rows, i) ==
    IF i > Len(rows) THEN None
    ELSE IF MentionQualifies(rule, rows[i]) THEN Some(MentionAlert(rule, rows[i]))
    ELSE MentionLoop(rule, rows, i + 1)

check_mention_count(rule, fetched) ==
    TryExcept(IF fetched.ok THEN Return(MentionLoop(rule, fetched.rows, 1)) ELSE Raise,
              None)

Ellipsis == <<".", ".", ".">>

KeywordAlert(rule, rows) ==
    [rule_name |-> rule.name,
     message |-> <<"keywords detected", rule.brand_keywords>>,
     severity |-> "low",
     timestamp |-> cycles,
     data |-> [count |-> Len(rows),
               keywords |-> rule.brand_keywords,
               latest |-> IF rows # <<>>
                          THEN Take(rows[1].response_text, LatestLimit) \o Ellipsis
                          ELSE <<>>,
               period |-> "1 hour"]]

KeywordQualifies(rule, rows) == CountAtLeast(Len(rows), rule.threshold)

\* without the try/except
check_keyword_detection_uncaught(rule, fetched) ==
    IF fetched.ok
    THEN Return(IF KeywordQualifies(rule, fetched.rows)
                THEN Some(KeywordAlert(rule, fetched.rows))
                ELSE None)
    ELSE Raise

check_keyword_detection(rule, fetched) ==
    TryExcept(IF fetched.ok
              THEN Return(IF KeywordQualifies(rule, fetched.rows)
                          THEN Some(KeywordAlert(rule, fetched.rows))
                          ELSE None)
              ELSE Raise,
              None)

----------------------------------------------------------------------------
(* EmailNotifier.send_alert_email and AlertEngine._log_alert.  `transport_ok`
   and `store_ok` say whether SMTP, respectively the connection, the two
   statements and the commit, went through. *)

\* without the try/except
send_alert_email_uncaught(recipients, a, transport_ok) ==
    IF transport_ok THEN Return(None) ELSE Raise

send_alert_email(recipients, a, transport_ok) ==
    TryExcept(IF transport_ok THEN Return(None) ELSE Raise, None)

_log_alert(a, store_ok) ==
    TryExcept(IF store_ok THEN Return(None) ELSE Raise, None)

\* INSERT INTO alert_logs (rule_name, message, severity, data); timestamp defaults
\* to CURRENT_TIMESTAMP
\* json.dumps(alert.data) stored as JSONB: an object, the set of its members
json_dumps(d) == {<<k, d[k]>> : k \in DOMAIN d}

LogRow(a) ==
    [rule_name |-> a.rule_name, message |-> a.message, severity |-> a.severity,
     data |-> json_dumps(a.data), timestamp |-> cycles]

\* an Alert of a rule that is in the log already is not logged again
AppendLogOnce(logs, row) ==
    IF \E k \in DOMAIN logs : logs[k].rule_name = row.rule_name THEN logs
    ELSE Append(logs, row)

\* the entry takes the place of the rule's earlier entries
AppendLogLatest(logs, row) ==
    LET Keep(e) == e.rule_name # row.rule_name
    IN  Append(SelectSeq(logs, Keep), row)

\* the INSERT, committed
AppendLog(logs, row) == Append(logs, row)

\* the message goes to nobody
MailToNobody(recipients, a, delivered) ==
    [to |-> <<>>, subject |-> <<a.rule_name, a.severity>>, alert |-> a,
     delivered |-> delivered]

Mail(recipients, a, delivered) ==
    [to |-> recipients, subject |-> <<a.rule_name, a.severity>>, alert |-> a,
     delivered |-> delivered]

----------------------------------------------------------------------------
(* AlertEngine.run_alert_checks, one step per loop iteration part.  The clock
   is the number of completed cycles. *)

Rule == alert_rules[idx]

InLoop == pc = "loop" /\ idx <= Len(alert_rules)

\* the is_active test left out
IsSkippedNever(rule) == FALSE

IsSkipped(rule) == ~rule.is_active

\* what the loop does with the outcome of a check
AfterCheck(outcome, fetched) ==
    /\ results' = (IF ~outcome.raised /\ outcome.value # None THEN fetched.rows ELSE <<>>)
    /\ ops' = Append(ops, [op |-> "query", rule |-> idx, ok |-> fetched.ok,
                           alerted |-> ~outcome.raised /\ outcome.value # None])
    /\ IF outcome.raised
       THEN pc' = "crashed" /\ alert' = None /\ idx' = idx
       ELSE /\ alert' = outcome.value
            /\ IF outcome.value # None
               THEN pc' = "send" /\ idx' = idx
               ELSE pc' = "loop" /\ idx' = idx + 1
    /\ faults' = faults + (IF fetched.ok THEN 0 ELSE 1)
    /\ UNCHANGED <<ai_responses, brand_mentions, alert_logs, alert_rules, outbox,
                   cycles, schedule, first>>
    /\ UNCHANGED analyzerVars
    /\ UNCHANGED processorVars

StartCycle ==
    /\ pc = "idle"
    /\ cycles < MaxCycles
    /\ cycles = 0 \/ schedule = "repeat"
    /\ pc' = "loop"
    /\ idx' = 1
    /\ ops' = <<>>
    /\ alert' = None
    /\ results' = <<>>
    /\ UNCHANGED <<ai_responses, brand_mentions, alert_logs, alert_rules, outbox,
                   cycles, faults, schedule, first>>
    /\ UNCHANGED analyzerVars
    /\ UNCHANGED processorVars

SkipInactive ==
    /\ InLoop
    /\ IsSkipped(Rule)
    /\ idx' = idx + 1
    /\ UNCHANGED <<ai_responses, brand_mentions, alert_logs, alert_rules, outbox,
                   pc, alert, results, ops, cycles, faults, schedule, first>>
    /\ UNCHANGED analyzerVars
    /\ UNCHANGED processorVars

MayFail == faults < MaxFaults

Outcomes == IF MayFail THEN BOOLEAN ELSE {TRUE}

\* what a SELECT without ORDER BY may give
Fetches(rowset) ==
    (IF MayFail THEN {[ok |-> FALSE, rows |-> <<>>]} ELSE {})
    \cup {[ok |-> TRUE, rows |-> r] : r \in Orders(rowset)}

CheckSentiment ==
    /\ InLoop
    /\ ~IsSkipped(Rule)
    /\ Rule.condition_type = "sentiment_threshold"
    /\ \E fetched \in Fetches(windowed_sentiment_counts(Rule)) :
          AfterCheck(check_sentiment_threshold(Rule, fetched), fetched)

CheckMention ==
    /\ InLoop
    /\ ~IsSkipped(Rule)
    /\ Rule.condition_type = "mention_count"
    /\ \E fetched \in Fetches(windowed_mention_counts(Rule)) :
          AfterCheck(check_mention_count(Rule, fetched), fetched)

CheckKeyword ==
    /\ InLoop
    /\ ~IsSkipped(Rule)
    /\ Rule.condition_type = "keyword_detection"
    /\ \E ok \in Outcomes :
          \E fetched \in {[ok |-> ok,
                           rows |-> IF ok THEN windowed_keyword_matches(Rule) ELSE <<>>]} :
             AfterCheck(check_keyword_detection(Rule, fetched), fetched)

SendAlertEmail ==
    /\ pc = "send"
    /\ \E transport_ok \in Outcomes :
          LET outcome == send_alert_email(Rule.email_recipients, alert[1], transport_ok)
          IN  /\ outbox' = Append(outbox, Mail(Rule.email_recipients, alert[1], transport_ok))
              /\ ops' = Append(ops, [op |-> "send", rule |-> idx, ok |-> transport_ok,
                                     alerted |-> TRUE])
              /\ pc' = IF outcome.raised THEN "crashed" ELSE "log"
              /\ faults' = faults + (IF transport_ok THEN 0 ELSE 1)
    /\ UNCHANGED <<ai_responses, brand_mentions, alert_logs, alert_rules, idx, alert,
                   results, cycles, schedule, first>>
    /\ UNCHANGED analyzerVars
    /\ UNCHANGED processorVars

LogAlert ==
    /\ pc = "log"
    /\ \E store_ok \in Outcomes :
          LET outcome == _log_alert(alert[1], store_ok)
          IN  /\ alert_logs' = IF store_ok THEN AppendLog(alert_logs, LogRow(alert[1]))
                               ELSE alert_logs
              /\ ops' = Append(ops, [op |-> "log", rule |-> idx, ok |-> store_ok,
                                     alerted |-> TRUE])
              /\ IF outcome.raised
                 THEN pc' = "crashed" /\ idx' = idx /\ alert' = alert /\ results' = results
                 ELSE pc' = "loop" /\ idx' = idx + 1 /\ alert' = None /\ results' = <<>>
              /\ faults' = faults + (IF store_ok THEN 0 ELSE 1)
    /\ UNCHANGED <<ai_responses, brand_mentions, alert_rules, outbox, cycles, schedule,
                   first>>
    /\ UNCHANGED analyzerVars
    /\ UNCHANGED processorVars

EndCycle ==
    /\ pc = "loop"
    /\ idx > Len(alert_rules)
    /\ pc' = "idle"
    /\ cycles' = cycles + 1
    /\ first' = IF cycles = 0
                THEN [alert_logs |-> alert_logs, outbox |-> outbox,
                      clean |-> \A i \in DOMAIN ops : ops[i].ok]
                ELSE first
    /\ UNCHANGED <<ai_responses, brand_mentions, alert_logs, alert_rules, outbox,
                   idx, alert, results, ops, faults, schedule>>
    /\ UNCHANGED analyzerVars
    /\ UNCHANGED processorVars

----------------------------------------------------------------------------
(* The data the engine runs on.  Brand names, keywords and texts are short
   character sequences standing for the configured ones. *)

Python == <<"P", "y">>
MachineLearning == <<"M", "L">>
Java == <<"J", "v">>
Rival == <<"r", "v">>
Substitute == <<"s", "b">>

TextPlain == <<"o", "k">>
TextRival == <<"a", "R", "v">>

Row(ai, recent, sentiment, response_text, query_text) ==
    [ai_name |-> ai, recent |-> recent, response_sentiment |-> sentiment,
     response_text |-> response_text, query_text |-> query_text,
     response_links |-> None]

PlainRow(ai, recent, sentiment) == Row(ai, recent, sentiment, TextPlain, TextPlain)

Copies(row, n) == [i \in 1..n |-> row]

Sources == <<"ChatGPT", "Gemini">>
Recipients == <<"admin@example.com">>

\* _load_default_rules, with the thresholds and the active flags left open
Rules(ths, thm, thk, active) ==
    <<[name |-> "negative_surge", condition_type |-> "sentiment_threshold",
       threshold |-> ths, brand_keywords |-> <<Python, MachineLearning>>,
       ai_sources |-> Sources, email_recipients |-> Recipients,
       is_active |-> active[1]],
      [name |-> "mention_surge", condition_type |-> "mention_count",
       threshold |-> thm, brand_keywords |-> <<Python, MachineLearning>>,
       ai_sources |-> Sources, email_recipients |-> Recipients,
       is_active |-> active[2]],
      [name |-> "competitor_detected", condition_type |-> "keyword_detection",
       threshold |-> thk, brand_keywords |-> <<Rival, Substitute>>,
       ai_sources |-> Sources, email_recipients |-> Recipients,
       is_active |-> active[3]]>>

AllActive == <<TRUE, TRUE, TRUE>>

SentimentThresholds == {Rat(1, 2), Rat(7, 10), Rat(9, 10)}
MentionThresholds == {Rat(1, 1), Rat(10, 1), Rat(20, 1), Rat(21, 1)}
KeywordThresholds == {Rat(0, 1), Rat(1, 1), Rat(5, 1), Rat(6, 1)}
MentionCounts == {0, 1, 9, 10, 11, 15, 19, 20, 21}

NoMentions == [m \in {} |-> 0]

Mentions(c) == [m \in {k \in DOMAIN c : c[k] > 0} |-> c[m]]

Key(id, brand) == [ai_response_id |-> id, brand_name |-> brand]

\* responses outside the window or from a source no rule names
NoiseRows(noise, sentiment, t) ==
    IF noise
    THEN <<Row("ChatGPT", FALSE, sentiment, t, TextPlain),
           Row("TestAI", TRUE, sentiment, t, TextPlain)>>
    ELSE <<>>

InitIdle ==
    /\ alert_logs = <<>>
    /\ outbox = <<>>
    /\ pc = "idle"
    /\ idx = 1
    /\ alert = None
    /\ results = <<>>
    /\ ops = <<>>
    /\ cycles = 0
    /\ faults = 0
    /\ first = [alert_logs |-> <<>>, outbox |-> <<>>, clean |-> TRUE]

\* t responses of ChatGPT in the window, n of them negative (with `noise` one of
\* the others is not analysed yet), and g[1] of Gemini, g[2] of them negative
InitSentimentData ==
    \E t \in 0..MaxResponses, g \in {<<0, 0>>, <<1, 1>>, <<2, 1>>}, noise \in BOOLEAN,
       th \in SentimentThresholds :
       \E n \in 0..t :
          /\ ai_responses =
                Copies(PlainRow("ChatGPT", TRUE, "negative"), n)
                \o Copies(PlainRow("ChatGPT", TRUE, IF noise THEN "NULL" ELSE "neutral"),
                          IF t > n THEN 1 ELSE 0)
                \o Copies(PlainRow("ChatGPT", TRUE, "positive"),
                          IF t > n THEN t - n - 1 ELSE 0)
                \o NoiseRows(noise, "negative", TextPlain)
                \o Copies(PlainRow("Gemini", TRUE, "negative"), g[2])
                \o Copies(PlainRow("Gemini", TRUE, "neutral"), g[1] - g[2])
          /\ brand_mentions = NoMentions
          /\ alert_rules = Rules(th, Rat(10, 1), Rat(1, 1), AllActive)
          /\ schedule = "once"

\* four responses and c1, c2, c3 mentions of the rule's brands on those in the
\* window; with `noise`, mentions outside the window, from another source and
\* of another brand
InitMentionData ==
    \E c1 \in MentionCounts, c2 \in {0, 10, 20}, c3 \in {0, 12}, noise \in BOOLEAN,
       th \in MentionThresholds :
          /\ ai_responses =
                <<PlainRow("ChatGPT", TRUE, "neutral"), PlainRow("Gemini", TRUE, "positive"),
                  PlainRow("ChatGPT", FALSE, "neutral"), PlainRow("TestAI", TRUE, "neutral")>>
          /\ brand_mentions =
                Mentions(Key(1, Python) :> c1 @@ Key(2, Python) :> c2
                         @@ Key(1, MachineLearning) :> c3
                         @@ Key(3, Python) :> (IF noise THEN 25 ELSE 0)
                         @@ Key(4, Python) :> (IF noise THEN 25 ELSE 0)
                         @@ Key(1, Java) :> (IF noise THEN 25 ELSE 0))
          /\ alert_rules = Rules(Rat(7, 10), th, Rat(1, 1), AllActive)
          /\ schedule = "once"

\* m responses in the window matching the keyword pattern, in the response text
\* or in the query text, after p that do not match
InitKeywordData ==
    \E m \in 0..MaxMatches, p \in 0..1, noise \in BOOLEAN, th \in KeywordThresholds :
          /\ ai_responses =
                Copies(PlainRow("Gemini", TRUE, "neutral"), p)
                \o NoiseRows(noise, "neutral", TextRival)
                \o [i \in 1..m |->
                      IF i % 2 = 1
                      THEN Row("ChatGPT", TRUE, "neutral", TextRival, TextPlain)
                      ELSE Row("Gemini", TRUE, "positive", TextPlain, TextRival)]
          /\ brand_mentions = NoMentions
          /\ alert_rules = Rules(Rat(7, 10), Rat(10, 1), th, AllActive)
          /\ schedule = "once"

\* a text of n characters that matches the keyword rule
LongRival(n) == TextRival \o [i \in 1..(n - Len(TextRival)) |-> "x"]

\* two matching responses in the window, one of them with a text of n
\* characters, around the 200 of response_text[:200]
InitLongTextData ==
    \E n \in {LatestLimit - 1, LatestLimit, LatestLimit + 1, LatestLimit + MaxExcess},
       newest \in BOOLEAN, th \in {Rat(1, 1), Rat(2, 1)} :
          /\ ai_responses =
                IF newest
                THEN <<Row("ChatGPT", TRUE, "neutral", TextRival, TextPlain),
                       Row("Gemini", TRUE, "neutral", LongRival(n), TextPlain)>>
                ELSE <<Row("Gemini", TRUE, "neutral", LongRival(n), TextPlain),
                       Row("ChatGPT", TRUE, "neutral", TextRival, TextPlain)>>
          /\ brand_mentions = NoMentions
          /\ alert_rules = Rules(Rat(7, 10), Rat(10, 1), th, AllActive)
          /\ schedule = "once"

\* all three rules have something to report; any of them may be switched off
InitMixedData ==
    \E active \in [1..3 -> BOOLEAN] :
          /\ ai_responses =
                <<Row("ChatGPT", TRUE, "negative", TextRival, TextPlain),
                  PlainRow("ChatGPT", TRUE, "negative"),
                  PlainRow("ChatGPT", TRUE, "negative"),
                  PlainRow("Gemini", TRUE, "neutral")>>
          /\ brand_mentions = Mentions(Key(4, Python) :> 15 @@ Key(1, Java) :> 20)
          /\ alert_rules = Rules(Rat(7, 10), Rat(10, 1), Rat(1, 1), active)
          /\ schedule = "repeat"

----------------------------------------------------------------------------
(* TextAnalyzer.analyze_sentiment.  sentiment_analyzer is None when loading the
   pipeline failed in __init__.  `backend` is what the pipeline does on the text
   it is given: it raises, it returns an empty list (results[0] is an
   IndexError), or results[0] is a list of label/score entries, one for each
   label of the model, which has at least one.  Scores are in hundredths. *)

EmptyDict == [k \in {} |-> 0]

Fallback == [positive |-> 33, negative |-> 33, neutral |-> 34]

\* sentiment_scores[key] = score
Put(d, key, score) == [k \in DOMAIN d \cup {key} |-> IF k = key THEN score ELSE d[k]]

LabelKey(label) ==
    IF IsSubstring(<<"p", "o", "s">>, LowerText(label)) THEN "positive"
    ELSE IF IsSubstring(<<"n", "e", "g">>, LowerText(label)) THEN "negative"
    ELSE "neutral"

RECURSIVE ScoresLoop(_, _, _)
ScoresLoop(out, i, d) ==
    IF i > Len(out) THEN d
    ELSE ScoresLoop(out, i + 1, Put(d, LabelKey(out[i].label), out[i].score))

\* without the try/except
analyze_sentiment_uncaught(analyzer, b) ==
    IF analyzer = None THEN Return(Fallback)
    ELSE IF b.kind = "scores" THEN Return(ScoresLoop(b.out, 1, EmptyDict))
    ELSE Raise

analyze_sentiment(analyzer, b) ==
    IF analyzer = None THEN Return(Fallback)
    ELSE TryExcept(IF b.kind = "scores" THEN Return(ScoresLoop(b.out, 1, EmptyDict))
                   ELSE Raise,
                   Fallback)

Labels == {<<"p", "o", "s">>, <<"N", "E", "G">>, <<"n", "e", "u">>, <<"L", "0">>}
Scores == {10, 30, 60}

RECURSIVE SeqsUpTo(_, _)
SeqsUpTo(S, n) ==
    IF n = 0 THEN {<<>>}
    ELSE LET shorter == SeqsUpTo(S, n - 1)
         IN  shorter \cup {Append(q, x) : q \in shorter, x \in S}

Backends ==
    {[kind |-> "raise", out |-> <<>>], [kind |-> "empty", out |-> <<>>]}
    \cup {[kind |-> "scores", out |-> o]
          : o \in SeqsUpTo([label : Labels, score : Scores], MaxScores) \ {<<>>}}

NotCalled == [called |-> FALSE, raised |-> FALSE, value |-> EmptyDict]

AnalyzeSentiment ==
    /\ ~call.called
    /\ LET outcome == analyze_sentiment(sentiment_analyzer, backend)
       IN  call' = [called |-> TRUE, raised |-> outcome.raised, value |-> outcome.value]
    /\ UNCHANGED <<sentiment_analyzer, backend>>
    /\ UNCHANGED engineVars
    /\ UNCHANGED processorVars

InitAnalyzerIdle ==
    /\ backend = [kind |-> "scores", out |-> <<>>]
    /\ call = NotCalled

----------------------------------------------------------------------------
(* TextAnalyzer.extract_entities, extract_topics and get_text_embedding.  nlp
   and sentence_model are None when loading them failed in __init__.  `request`
   names the operation and its arguments together with what the library
   underneath (spaCy, scikit-learn, sentence-transformers) does on them. *)

\* entities.append({'text': ..., 'label': ..., 'start': ..., 'end': ...})
Entity(ent) ==
    [text |-> ent.text, label |-> ent.label_, start |-> ent.start_char,
     end |-> ent.end_char]

\* doc = self.nlp(text) stands outside any try
extract_entities(model, doc) ==
    IF model = None THEN Return(<<>>)
    ELSE IF doc.raised THEN Raise
    ELSE Return([i \in DOMAIN doc.ents |-> Entity(doc.ents[i])])

get_text_embedding(model, encoded) ==
    IF model = None THEN Return(None)
    ELSE TryExcept(IF encoded.raised THEN Raise ELSE Return(Some(encoded.vector)),
                   None)

TopWords == 10            \* cluster_center.argsort()[-10:]

Min(a, b) == IF a < b THEN a ELSE b

\* for i in range(n_topics): cluster_center = kmeans.cluster_centers_[i] ...
\* an index past the last centre is an IndexError
RECURSIVE TopicsLoop(_, _, _, _, _)
TopicsLoop(n_topics, n_clusters, n_features, i, topics) ==
    IF i >= n_topics THEN Return(topics)
    ELSE IF i >= n_clusters THEN Raise
    ELSE TopicsLoop(n_topics, n_clusters, n_features, i + 1,
                    Append(topics, [cluster |-> i, words |-> Min(TopWords, n_features)]))

\* fit_transform raises on an empty vocabulary, KMeans on n_clusters < 1
extract_topics(texts, n_topics, sklearn) ==
    TryExcept(IF sklearn.raised \/ sklearn.n_features = 0 THEN Raise
              ELSE IF Min(n_topics, Len(texts)) < 1 THEN Raise
              ELSE TopicsLoop(n_topics, Min(n_topics, Len(texts)), sklearn.n_features,
                              0, <<>>),
              <<>>)

NoExtraction == [called |-> FALSE, raised |-> FALSE, value |-> <<>>]

Extracted(outcome) == [called |-> TRUE, raised |-> outcome.raised, value |-> outcome.value]

ExtractEntities ==
    /\ request.op = "extract_entities"
    /\ ~extraction.called
    /\ extraction' = Extracted(extract_entities(nlp, request.doc))
    /\ UNCHANGED <<nlp, sentence_model, request>>
    /\ UNCHANGED <<engineVars, analyzerVars, detectorVars, pipelineVars>>

ExtractTopics ==
    /\ request.op = "extract_topics"
    /\ ~extraction.called
    /\ extraction' = Extracted(extract_topics(request.texts, request.n_topics,
                                              request.sklearn))
    /\ UNCHANGED <<nlp, sentence_model, request>>
    /\ UNCHANGED <<engineVars, analyzerVars, detectorVars, pipelineVars>>

GetTextEmbedding ==
    /\ request.op = "get_text_embedding"
    /\ ~extraction.called
    /\ extraction' = Extracted(get_text_embedding(sentence_model, request.encoded))
    /\ UNCHANGED <<nlp, sentence_model, request>>
    /\ UNCHANGED <<engineVars, analyzerVars, detectorVars, pipelineVars>>

Ent(t, label, start) ==
    [text |-> t, label_ |-> label, start_char |-> start, end_char |-> start + Len(t)]

EntityRequests ==
    {[op |-> "extract_entities", doc |-> d]
     : d \in {[raised |-> TRUE, ents |-> <<>>],
              [raised |-> FALSE, ents |-> <<>>],
              [raised |-> FALSE, ents |-> <<Ent(Python, "PRODUCT", 0)>>],
              [raised |-> FALSE,
               ents |-> <<Ent(Python, "PRODUCT", 0), Ent(Java, "PRODUCT", 6)>>]}}

TopicRequests ==
    {[op |-> "extract_topics", texts |-> Copies(TextPlain, n), n_topics |-> k,
      sklearn |-> lib]
     : n \in 0..MaxTexts, k \in 1..MaxTopics,
       lib \in {[raised |-> TRUE, n_features |-> 0],
                [raised |-> FALSE, n_features |-> 0],
                [raised |-> FALSE, n_features |-> 4],
                [raised |-> FALSE, n_features |-> 12]}}

EmbeddingRequests ==
    {[op |-> "get_text_embedding", encoded |-> e]
     : e \in {[raised |-> TRUE, vector |-> <<>>], [raised |-> FALSE, vector |-> <<1, 0, 2>>]}}

NoRequest == [op |-> "none"]

InitTextIdle ==
    /\ nlp = Some("en_core_web_sm")
    /\ sentence_model = Some("all-MiniLM-L6-v2")
    /\ request = NoRequest
    /\ extraction = NoExtraction

----------------------------------------------------------------------------
(* BrandMentionDetector.  Python's str.lower() works on the whole string and
   may lengthen it: the capital I with a dot above, written "U+0130" here, is
   lower-cased to two characters, "i" and the combining dot "U+0307". *)

WindowSize == 100         \* window_size: int = 100
MissLimit == 200          \* text[:200] when the keyword is not found

lower_char(c) == IF c = "U+0130" THEN <<"i", "U+0307">> ELSE <<Lower(c)>>

\* character by character, halving the text
RECURSIVE lower(_)
lower(t) ==
    IF Len(t) = 0 THEN <<>>
    ELSE IF Len(t) = 1 THEN lower_char(t[1])
    ELSE lower(SubSeq(t, 1, Len(t) \div 2)) \o lower(SubSeq(t, Len(t) \div 2 + 1, Len(t)))

\* str.find: the least index (from 0) at which k starts in t, -1 if none
find(t, k) ==
    LET hits == {p \in 0..(Len(t) - Len(k)) : \A i \in 1..Len(k) : t[p + i] = k[i]}
    IN  IF hits = {} THEN -1 ELSE CHOOSE p \in hits : \A q \in hits : p <= q

Max(a, b) == IF a > b THEN a ELSE b

\* t[a:b] for 0 <= a, 0 <= b
Slice(t, a, b) == SubSeq(t, Min(a, Len(t)) + 1, Min(b, Len(t)))

\* keywords are kept as configured
BrandMentionDetector_init_verbatim(keywords) == keywords

\* self.brand_keywords = [keyword.lower() for keyword in brand_keywords]
BrandMentionDetector_init(keywords) == [i \in DOMAIN keywords |-> lower(keywords[i])]

Http == <<"h", "t", "t", "p">>

_classify_mention_type(t, keyword) ==
    IF IsSubstring(Http, lower(t)) /\ IsSubstring(keyword, lower(t)) THEN "link"
    ELSE IF IsSubstring(keyword, lower(t)) THEN "direct"
    ELSE "implied"

_extract_context(t, keyword, window_size) ==
    LET keyword_pos == find(lower(t), keyword)
    IN  IF keyword_pos = -1 THEN Slice(t, 0, MissLimit)
        ELSE Slice(t, Max(0, keyword_pos - window_size),
                   Min(Len(t), keyword_pos + Len(keyword) + window_size))

\* the keys of the dict analyze_sentiment returns, in insertion order
RECURSIVE KeysLoop(_, _, _)
KeysLoop(out, i, keys) ==
    IF i > Len(out) THEN keys
    ELSE KeysLoop(out, i + 1,
                  IF LabelKey(out[i].label) \in Range(keys) THEN keys
                  ELSE Append(keys, LabelKey(out[i].label)))

key_order(analyzer, b) ==
    IF analyzer = None \/ b.kind # "scores" THEN <<"positive", "negative", "neutral">>
    ELSE KeysLoop(b.out, 1, <<>>)

\* max(d, key=d.get): the first key, in the dict's order, with the greatest
\* value; a ValueError on the empty dict
max_key(d, order) ==
    IF order = <<>> THEN Raise
    ELSE Return(order[CHOOSE i \in DOMAIN order :
                         /\ \A j \in DOMAIN order : d[order[j]] <= d[order[i]]
                         /\ \A j \in 1..(i - 1) : d[order[j]] < d[order[i]]])

\* for keyword in self.brand_keywords: if keyword in text_lower: ... ; every
\* match calls analyze_sentiment once, the n-th call getting inv[n]
RECURSIVE MentionsLoop(_, _, _, _, _, _)
MentionsLoop(keywords, t, analyzer, inv, i, mentions) ==
    IF i > Len(keywords) THEN Return(mentions)
    ELSE IF ~IsSubstring(keywords[i], lower(t))
         THEN MentionsLoop(keywords, t, analyzer, inv, i + 1, mentions)
         ELSE LET b == inv[Len(mentions) + 1]
                  sentiment_scores == analyze_sentiment(analyzer, b).value
                  sentiment == max_key(sentiment_scores, key_order(analyzer, b))
              IN  IF sentiment.raised THEN Raise
                  ELSE MentionsLoop(keywords, t, analyzer, inv, i + 1,
                          Append(mentions,
                                 [brand_name |-> keywords[i],
                                  mention_type |-> _classify_mention_type(t, keywords[i]),
                                  sentiment |-> sentiment.value,
                                  sentiment_scores |-> sentiment_scores,
                                  context |-> _extract_context(t, keywords[i], WindowSize)]))

detect_mentions(keywords, t, analyzer, inv) ==
    MentionsLoop(keywords, t, analyzer, inv, 1, <<>>)

NotDetected == [called |-> FALSE, raised |-> FALSE, value |-> <<>>]

DetectMentions ==
    /\ ~detected.called
    /\ LET outcome == detect_mentions(brand_keywords, text, sentiment_analyzer, invocations)
       IN  detected' = [called |-> TRUE, raised |-> outcome.raised, value |-> outcome.value]
    /\ UNCHANGED <<brand_keywords, text, invocations, config>>
    /\ UNCHANGED <<engineVars, analyzerVars, textVars, pipelineVars>>

Acme == <<"A", "c", "m", "e">>
AcmeCaps == <<"A", "C", "M", "E">>

Pad(c, n) == [i \in 1..n |-> c]

\* "at http://acme.ex for Acme"
TextWithUrl ==
    <<"a", "t", " ", "h", "t", "t", "p", ":", "/", "/", "a", "c", "m", "e", ".", "e", "x",
      " ", "f", "o", "r", " ">> \o Acme

\* "Acme on HTTP"
TextWithHttpWord == Acme \o <<" ", "o", "n", " ", "H", "T", "T", "P">>

\* "ACME Py acme"
TextTwice == AcmeCaps \o <<" ">> \o Python \o <<" ", "a", "c", "m", "e">>

\* Acme after 120 and before 150 other characters
TextLong == Pad("x", 120) \o Acme \o Pad("z", 150)

\* Acme after 101 capital dotted I
TextDotted == Pad("U+0130", WindowSize + 1) \o <<" ">> \o Acme

Texts == {TextPlain, TextWithUrl, TextWithHttpWord, TextTwice, TextLong, TextDotted, Acme}

Configs == {<<Acme>>, <<Acme, Python>>, <<Python, AcmeCaps, Acme>>, <<Java>>, <<>>}

\* the pipeline raises, or gives the scores of the text at hand
Behaviours(scores) == {[kind |-> "raise", out |-> <<>>], [kind |-> "scores", out |-> scores]}

TextScores ==
    {<<[label |-> <<"n", "e", "g">>, score |-> 60], [label |-> <<"n", "e", "u">>, score |-> 30],
       [label |-> <<"p", "o", "s">>, score |-> 10]>>,
     <<[label |-> <<"N", "E", "G">>, score |-> 30], [label |-> <<"p", "o", "s">>, score |-> 30]>>}

InitDetectorIdle ==
    /\ config = <<>>
    /\ brand_keywords = <<>>
    /\ text = <<>>
    /\ invocations = <<>>
    /\ detected = NotDetected

----------------------------------------------------------------------------
(* TextAnalyzer.preprocess_text and the link pattern of process_ai_response.
   The three substitutions are regular-expression searches from the left,
   case-sensitive; whitespace is the blank. *)

StartsWith(t, i, k) ==
    /\ i + Len(k) - 1 <= Len(t)
    /\ \A j \in 1..Len(k) : t[i + j - 1] = k[j]

\* <[^>]+> at index i: its length, 0 if it does not match there
TagLen(t, i) ==
    LET closes == {j \in (i + 1)..Len(t) : t[j] = ">"}
        close == CHOOSE j \in closes : \A l \in closes : j <= l
    IN  IF t[i] # "<" \/ closes = {} THEN 0
        ELSE IF close = i + 1 THEN 0
        ELSE close - i + 1

RECURSIVE RemoveTags(_, _)
RemoveTags(t, i) ==
    IF i > Len(t) THEN <<>>
    ELSE IF TagLen(t, i) > 0 THEN RemoveTags(t, i + TagLen(t, i))
    ELSE <<t[i]>> \o RemoveTags(t, i + 1)

\* the characters of the model's alphabet outside the class
\* [a-zA-Z] | [0-9] | [$-_@.&+] | [!*\(\),] | %XX
IsUrlChar(c) == c \notin {" ", "#", "~", "U+0130", "U+0307"}

SchemeLen(t, i) ==
    IF StartsWith(t, i, Http \o <<"s", ":", "/", "/">>) THEN 8
    ELSE IF StartsWith(t, i, Http \o <<":", "/", "/">>) THEN 7
    ELSE 0

\* the url characters in a row from index i on
RunLen(t, i) ==
    LET stops == {j \in i..Len(t) : ~IsUrlChar(t[j])}
    IN  IF stops = {} THEN Len(t) + 1 - i
        ELSE (CHOOSE j \in stops : \A l \in stops : j <= l) - i

\* http[s]?://(...)+ at index i: its length, 0 if it does not match there
UrlLen(t, i) ==
    IF SchemeLen(t, i) = 0 THEN 0
    ELSE IF RunLen(t, i + SchemeLen(t, i)) = 0 THEN 0
    ELSE SchemeLen(t, i) + RunLen(t, i + SchemeLen(t, i))

RECURSIVE RemoveUrls(_, _)
RemoveUrls(t, i) ==
    IF i > Len(t) THEN <<>>
    ELSE IF UrlLen(t, i) > 0 THEN RemoveUrls(t, i + UrlLen(t, i))
    ELSE <<t[i]>> \o RemoveUrls(t, i + 1)

\* re.findall of the same pattern
RECURSIVE FindUrls(_, _)
FindUrls(t, i) ==
    IF i > Len(t) THEN <<>>
    ELSE IF UrlLen(t, i) > 0
         THEN <<SubSeq(t, i, i + UrlLen(t, i) - 1)>> \o FindUrls(t, i + UrlLen(t, i))
    ELSE FindUrls(t, i + 1)

\* re.sub(r'\s+', ' ', text)
RECURSIVE CollapseSpaces(_, _)
CollapseSpaces(t, i) ==
    IF i > Len(t) THEN <<>>
    ELSE IF t[i] = " " /\ i > 1 /\ t[i - 1] = " " THEN CollapseSpaces(t, i + 1)
    ELSE <<t[i]>> \o CollapseSpaces(t, i + 1)

strip(t) ==
    LET inked == {i \in DOMAIN t : t[i] # " "}
    IN  IF inked = {} THEN <<>>
        ELSE SubSeq(t, CHOOSE i \in inked : \A j \in inked : i <= j,
                    CHOOSE i \in inked : \A j \in inked : j <= i)

preprocess_text(t) == strip(CollapseSpaces(RemoveUrls(RemoveTags(t, 1), 1), 1))

----------------------------------------------------------------------------
(* DataProcessor.  `store` is the pair of tables a connection works on.  The
   statements of _update_database are numbered in execution order: 0 the
   connect, 1 the UPDATE, 1 + k the k-th INSERT, and after the last INSERT the
   commit; fail_at is the number of the statement that raises (no statement
   raises when it names none); a call failed `midway` when a statement after
   the UPDATE raised.  The processor's analyzer and its detector's
   analyzer load the same pipeline. *)

BatchLimit == 100         \* LIMIT 100

InsertRow(bag, row) ==
    IF row \in DOMAIN bag THEN [bag EXCEPT ![row] = @ + 1] ELSE bag @@ (row :> 1)

MentionRow(response_id, mention) ==
    [ai_response_id |-> response_id, brand_name |-> mention.brand_name,
     mention_type |-> mention.mention_type, sentiment |-> mention.sentiment,
     context |-> mention.context]

\* the first n of the INSERTs
RECURSIVE InsertMentions(_, _, _, _)
InsertMentions(bag, response_id, mentions, n) ==
    IF n = 0 THEN bag
    ELSE InsertRow(InsertMentions(bag, response_id, mentions, n - 1),
                   MentionRow(response_id, mentions[n]))

\* UPDATE ai_responses SET response_sentiment = %s, response_links = %s WHERE id = %s
UpdateResponse(responses, response_id, sentiment, links) ==
    [i \in DOMAIN responses |->
        IF i = response_id
        THEN [responses[i] EXCEPT !.response_sentiment = sentiment,
                                  !.response_links = Some(links)]
        ELSE responses[i]]

Fails(fail_at, mentions) == fail_at \in 0..(Len(mentions) + 2)

\* every statement is committed as it is executed
_update_database_autocommit(store, response_id, sentiment, links, mentions, fail_at) ==
    IF Fails(fail_at, mentions) /\ fail_at <= 1 THEN store
    ELSE [ai_responses |->
              UpdateResponse(store.ai_responses, response_id, sentiment, links),
          brand_mentions |->
              InsertMentions(store.brand_mentions, response_id, mentions,
                             IF Fails(fail_at, mentions)
                             THEN Min(fail_at - 2, Len(mentions))
                             ELSE Len(mentions))]

\* with psycopg2.connect(...) as conn: one transaction, committed at the end and
\* rolled back when a statement raises; the exception is logged
_update_database(store, response_id, sentiment, links, mentions, fail_at) ==
    IF Fails(fail_at, mentions) THEN store
    ELSE [ai_responses |->
              UpdateResponse(store.ai_responses, response_id, sentiment, links),
          brand_mentions |->
              InsertMentions(store.brand_mentions, response_id, mentions, Len(mentions))]

\* VectorDatabase.add_response: nothing is added when there is no embedding or
\* the collection raises
add_response(coll, response_id, vector_ok) ==
    IF vector_ok THEN coll \cup {response_id} ELSE coll

\* the part of process_ai_response before the store is touched: raised when
\* the sentiment, the entities or the mentions could not be had
Analysis(response_text, inv, doc) ==
    LET processed_text == preprocess_text(response_text)
        sentiment_scores == analyze_sentiment(sentiment_analyzer, inv[1]).value
        sentiment == max_key(sentiment_scores, key_order(sentiment_analyzer, inv[1]))
        entities == extract_entities(nlp, doc)
        mentions == detect_mentions(brand_keywords, processed_text, sentiment_analyzer,
                                    Tail(inv))
    IN  IF sentiment.raised \/ entities.raised \/ mentions.raised THEN Raise
        ELSE Return([sentiment |-> sentiment.value, entities |-> entities.value,
                     brand_mentions |-> mentions.value,
                     links |-> FindUrls(response_text, 1)])

process_ai_response(store, coll, response_id, analysis, fail_at, vector_ok) ==
    IF analysis.raised
    THEN [store |-> store, collection |-> coll,
          op |-> [response_id |-> response_id, analysed |-> FALSE,
                  mentions |-> <<>>, committed |-> FALSE, midway |-> FALSE]]
    ELSE LET found == analysis.value
         IN  [store |-> _update_database(store, response_id, found.sentiment, found.links,
                                         found.brand_mentions, fail_at),
              collection |-> add_response(coll, response_id, vector_ok),
              op |-> [response_id |-> response_id, analysed |-> TRUE,
                      mentions |-> [k \in DOMAIN found.brand_mentions |->
                                       MentionRow(response_id, found.brand_mentions[k])],
                      committed |-> ~Fails(fail_at, found.brand_mentions),
                      midway |-> Fails(fail_at, found.brand_mentions) /\ fail_at > 1]]

TheStore == [ai_responses |-> ai_responses, brand_mentions |-> brand_mentions]

Negative60 ==
    <<[label |-> <<"n", "e", "g">>, score |-> 60], [label |-> <<"n", "e", "u">>, score |-> 30],
      [label |-> <<"p", "o", "s">>, score |-> 10]>>

\* what the sentiment pipeline does on the calls of one process_ai_response:
\* it works, it raises, or it works for the response and raises for the mentions
Invocations ==
    {[n \in 1..(1 + Len(brand_keywords)) |-> b] : b \in Behaviours(Negative60)}
    \cup {[n \in 1..(1 + Len(brand_keywords)) |->
             IF n = 1 THEN [kind |-> "scores", out |-> Negative60]
             ELSE [kind |-> "raise", out |-> <<>>]]}

Docs == {[raised |-> TRUE, ents |-> <<>>], [raised |-> FALSE, ents |-> <<>>]}

FailAts == -1..(Len(brand_keywords) + 2)

Processed(done) ==
    /\ ai_responses' = done.store.ai_responses
    /\ brand_mentions' = done.store.brand_mentions
    /\ collection' = done.collection
    /\ pipeline_ops' = Append(pipeline_ops, done.op)

\* a call from outside the batch
ProcessAiResponse ==
    /\ batch.pc = "idle"
    /\ Len(pipeline_ops) < MaxCalls
    /\ \E response_id \in DOMAIN ai_responses, inv \in Invocations, doc \in Docs :
          LET analysis == Analysis(ai_responses[response_id].response_text, inv, doc)
          IN  \E fail_at \in FailAts, vector_ok \in BOOLEAN :
                 Processed(process_ai_response(TheStore, collection, response_id,
                                               analysis, fail_at, vector_ok))
    /\ UNCHANGED <<alert_logs, alert_rules, outbox, pc, idx, alert, results, ops, cycles,
                   faults, schedule, first, batch>>
    /\ UNCHANGED <<analyzerVars, textVars, detectorVars>>

Unprocessed == {i \in DOMAIN ai_responses : ai_responses[i].response_sentiment = "NULL"}

\* the SELECT without its WHERE clause
every_response ==
    LET ordered == NewestFirst(DOMAIN ai_responses)
    IN  [j \in 1..Min(Len(ordered), BatchLimit) |->
            [id |-> ordered[j], ai_name |-> ai_responses[ordered[j]].ai_name,
             query_text |-> ai_responses[ordered[j]].query_text,
             response_text |-> ai_responses[ordered[j]].response_text]]

\* SELECT ... WHERE response_sentiment IS NULL ORDER BY timestamp DESC LIMIT 100
unprocessed_responses ==
    LET ordered == NewestFirst(Unprocessed)
    IN  [j \in 1..Min(Len(ordered), BatchLimit) |->
            [id |-> ordered[j], ai_name |-> ai_responses[ordered[j]].ai_name,
             query_text |-> ai_responses[ordered[j]].query_text,
             response_text |-> ai_responses[ordered[j]].response_text]]

BatchIdle == [pc |-> "idle", responses |-> <<>>, i |-> 1]

\* the SELECT of batch_process_unprocessed_responses; when it raises the batch
\* is over
BatchSelect ==
    /\ batch.pc = "idle"
    /\ Len(pipeline_ops) + Cardinality(Unprocessed) <= MaxCalls
    /\ \E select_ok \in BOOLEAN :
          batch' = IF select_ok
                   THEN [pc |-> "loop", responses |-> unprocessed_responses, i |-> 1]
                   ELSE BatchIdle
    /\ UNCHANGED <<engineVars, analyzerVars, textVars, detectorVars, pipeline_ops,
                   collection>>

\* one turn of  for response in responses: self.process_ai_response(...)
BatchProcess ==
    /\ batch.pc = "loop"
    /\ batch.i <= Len(batch.responses)
    /\ \E inv \in Invocations, doc \in Docs :
          LET analysis == Analysis(batch.responses[batch.i].response_text, inv, doc)
          IN  \E fail_at \in FailAts, vector_ok \in BOOLEAN :
                 Processed(process_ai_response(TheStore, collection,
                                               batch.responses[batch.i].id, analysis,
                                               fail_at, vector_ok))
    /\ batch' = [batch EXCEPT !.i = @ + 1]
    /\ UNCHANGED <<alert_logs, alert_rules, outbox, pc, idx, alert, results, ops, cycles,
                   faults, schedule, first>>
    /\ UNCHANGED <<analyzerVars, textVars, detectorVars>>

BatchEnd ==
    /\ batch.pc = "loop"
    /\ batch.i > Len(batch.responses)
    /\ batch' = BatchIdle
    /\ UNCHANGED <<engineVars, analyzerVars, textVars, detectorVars, pipeline_ops,
                   collection>>

InitPipelineIdle ==
    /\ pipeline_ops = <<>>
    /\ batch = BatchIdle
    /\ collection = {}

\* "<b>Acme</b> at http://acme.ex and  Py"
TextMarkup ==
    <<"<", "b", ">">> \o Acme \o <<"<", "/", "b", ">", " ", "a", "t", " ">>
    \o <<"h", "t", "t", "p", ":", "/", "/", "a", "c", "m", "e", ".", "e", "x">>
    \o <<" ", "a", "n", "d", " ", " ">> \o Python

\* test_sample_data_insertion: a response with its sentiment and one mention
SampleMention ==
    [ai_response_id |-> 1, brand_name |-> Python, mention_type |-> "direct",
     sentiment |-> "positive", context |-> Python]

Init ==
    /\ InitIdle
    /\ InitAnalyzerIdle
    /\ InitTextIdle
    /\ InitDetectorIdle
    /\ InitPipelineIdle
    /\ sentiment_analyzer = Some("pipeline")
    /\ \/ InitSentimentData
       \/ InitMentionData
       \/ InitKeywordData
       \/ InitLongTextData
       \/ InitMixedData

Next ==
    \/ StartCycle
    \/ SkipInactive
    \/ CheckSentiment
    \/ CheckMention
    \/ CheckKeyword
    \/ SendAlertEmail
    \/ LogAlert
    \/ EndCycle

Spec == Init /\ [][Next]_vars

\* run_alert_checks is sequential code whose calls to the store and to the mail
\* transport return, with a result or with an error: a step that can be taken
\* is taken.  One call is followed from the store of InitMixedData; the first
\* rule is stored active or inactive, the others active
InitLive ==
    /\ InitIdle
    /\ InitAnalyzerIdle
    /\ InitTextIdle
    /\ InitDetectorIdle
    /\ InitPipelineIdle
    /\ sentiment_analyzer = Some("pipeline")
    /\ ai_responses =
          <<Row("ChatGPT", TRUE, "negative", TextRival, TextPlain),
            PlainRow("ChatGPT", TRUE, "negative"),
            PlainRow("ChatGPT", TRUE, "negative"),
            PlainRow("Gemini", TRUE, "neutral")>>
    /\ brand_mentions = Mentions(Key(4, Python) :> 15 @@ Key(1, Java) :> 20)
    /\ \E first_active \in BOOLEAN :
          alert_rules = Rules(Rat(7, 10), Rat(10, 1), Rat(1, 1),
                              [i \in 1..3 |-> i # 1 \/ first_active])
    /\ schedule = "once"

SpecLive == InitLive /\ [][Next]_vars /\ WF_vars(Next)

\* the analyzer alone, on a store that is left as it is
InitAnalyzer ==
    /\ InitIdle
    /\ sentiment_analyzer \in {None, Some("pipeline")}
    /\ backend \in Backends
    /\ call = NotCalled
    /\ ai_responses = <<>>
    /\ brand_mentions = NoMentions
    /\ alert_rules = Rules(Rat(7, 10), Rat(10, 1), Rat(1, 1), AllActive)
    /\ schedule = "once"
    /\ InitTextIdle
    /\ InitDetectorIdle
    /\ InitPipelineIdle

NextAnalyzer == AnalyzeSentiment

SpecAnalyzer == InitAnalyzer /\ [][NextAnalyzer]_vars

InitEngineIdle ==
    /\ InitIdle
    /\ ai_responses = <<>>
    /\ brand_mentions = NoMentions
    /\ alert_rules = Rules(Rat(7, 10), Rat(10, 1), Rat(1, 1), AllActive)
    /\ schedule = "once"

\* the four extraction operations of a TextAnalyzer, each on one request
InitTextAnalyzer ==
    /\ InitEngineIdle
    /\ InitDetectorIdle
    /\ InitPipelineIdle
    /\ sentiment_analyzer \in {None, Some("pipeline")}
    /\ backend \in Behaviours(Negative60) \cup {[kind |-> "empty", out |-> <<>>]}
    /\ call = NotCalled
    /\ nlp \in {None, Some("en_core_web_sm")}
    /\ sentence_model \in {None, Some("all-MiniLM-L6-v2")}
    /\ \/ request \in EntityRequests
       \/ request \in TopicRequests
       \/ request \in EmbeddingRequests
    /\ extraction = NoExtraction

NextTextAnalyzer ==
    \/ AnalyzeSentiment
    \/ ExtractEntities
    \/ ExtractTopics
    \/ GetTextEmbedding

SpecTextAnalyzer == InitTextAnalyzer /\ [][NextTextAnalyzer]_vars

\* one detect_mentions call of a detector constructed with `config`
InitDetector ==
    /\ InitEngineIdle
    /\ InitAnalyzerIdle
    /\ InitTextIdle
    /\ InitPipelineIdle
    /\ sentiment_analyzer \in {None, Some("pipeline")}
    /\ config \in Configs
    /\ brand_keywords = BrandMentionDetector_init(config)
    /\ text \in Texts
    /\ \E scores \in TextScores :
          invocations \in [1..Len(config) -> Behaviours(scores)]
    /\ detected = NotDetected

NextDetector == DetectMentions

SpecDetector == InitDetector /\ [][NextDetector]_vars

\* the analysis pipeline on a store with unprocessed responses
InitPipeline ==
    /\ InitIdle
    /\ InitAnalyzerIdle
    /\ InitTextIdle
    /\ sentiment_analyzer = Some("pipeline")
    /\ config = <<Acme, Python>>
    /\ brand_keywords = BrandMentionDetector_init(config)
    /\ text = <<>>
    /\ invocations = <<>>
    /\ detected = NotDetected
    /\ InitPipelineIdle
    /\ alert_rules = Rules(Rat(7, 10), Rat(10, 1), Rat(1, 1), AllActive)
    /\ schedule = "once"
    /\ \E sample \in BOOLEAN :
          /\ ai_responses =
                (IF sample THEN <<PlainRow("TestAI", TRUE, "positive")>> ELSE <<>>)
                \o <<Row("ChatGPT", TRUE, "NULL", TextMarkup, TextPlain),
                     Row("Gemini", TRUE, "NULL", TextPlain, TextPlain)>>
          /\ brand_mentions = IF sample THEN SampleMention :> 1 ELSE NoMentions

NextPipeline ==
    \/ ProcessAiResponse
    \/ BatchSelect
    \/ BatchProcess
    \/ BatchEnd

SpecPipeline == InitPipeline /\ [][NextPipeline]_vars

----------------------------------------------------------------------------
(* AlertEngine.__init__ and a rule list that holds a rule whose condition_type
   is none of the three run_alert_checks knows.  __init__ takes the list as
   _load_default_rules gives it and checks nothing; in run_alert_checks none
   of the if/elif branches is taken for such a rule, alert stays None and the
   loop goes on. *)

ConditionTypes == {"sentiment_threshold", "mention_count", "keyword_detection"}

\* self.alert_rules = self._load_default_rules()
AlertEngine_init(rules) == Return(rules)

\* alert = None; no branch taken; if alert: is false
CheckNothing ==
    /\ InLoop
    /\ ~IsSkipped(Rule)
    /\ Rule.condition_type \notin ConditionTypes
    /\ idx' = idx + 1
    /\ UNCHANGED <<ai_responses, brand_mentions, alert_logs, alert_rules, outbox,
                   pc, alert, results, ops, cycles, faults, schedule, first>>
    /\ UNCHANGED analyzerVars
    /\ UNCHANGED processorVars

\* the configured list: as it should be (k = 0), with the condition_type of
\* the k-th rule mistyped, or with a mistyped rule after the three
Configured(active, k, type) ==
    LET rules == Rules(Rat(7, 10), Rat(10, 1), Rat(1, 1), active)
    IN  IF k = 0 THEN rules
        ELSE IF k <= Len(rules) THEN [rules EXCEPT ![k].condition_type = type]
        ELSE Append(rules, [rules[1] EXCEPT !.name = "extra", !.condition_type = type])

\* an engine constructed on such a list; when construction raises there is no
\* engine and nothing runs
InitConfig ==
    /\ InitIdle
    /\ InitAnalyzerIdle
    /\ InitTextIdle
    /\ InitDetectorIdle
    /\ InitPipelineIdle
    /\ sentiment_analyzer = Some("pipeline")
    /\ ai_responses =
          <<Row("ChatGPT", TRUE, "negative", TextRival, TextPlain),
            PlainRow("ChatGPT", TRUE, "negative"),
            PlainRow("ChatGPT", TRUE, "negative"),
            PlainRow("Gemini", TRUE, "neutral")>>
    /\ brand_mentions = Mentions(Key(4, Python) :> 15 @@ Key(1, Java) :> 20)
    /\ schedule = "once"
    /\ \E active \in [1..3 -> BOOLEAN], k \in 0..4, type \in {"sentiment", "keyword"} :
          LET made == AlertEngine_init(Configured(active, k, type))
          IN  /\ ~made.raised
              /\ alert_rules = made.value

NextConfig ==
    \/ StartCycle
    \/ SkipInactive
    \/ CheckSentiment
    \/ CheckMention
    \/ CheckKeyword
    \/ CheckNothing
    \/ SendAlertEmail
    \/ LogAlert
    \/ EndCycle

SpecConfig == InitConfig /\ [][NextConfig]_vars

----------------------------------------------------------------------------
(* main() of data_processor.py: batch_process_unprocessed_responses, run time
   and again, is the only caller of process_ai_response.  The store holds one
   or two responses that are not analysed yet, after the response and the
   mention test_sample_data_insertion leaves behind. *)

InitBatch ==
    /\ InitIdle
    /\ InitAnalyzerIdle
    /\ InitTextIdle
    /\ sentiment_analyzer = Some("pipeline")
    /\ config = <<Acme, Python>>
    /\ brand_keywords = BrandMentionDetector_init(config)
    /\ text = <<>>
    /\ invocations = <<>>
    /\ detected = NotDetected
    /\ InitPipelineIdle
    /\ alert_rules = Rules(Rat(7, 10), Rat(10, 1), Rat(1, 1), AllActive)
    /\ schedule = "once"
    /\ \E sample \in BOOLEAN, two \in BOOLEAN :
          /\ ai_responses =
                (IF sample THEN <<PlainRow("TestAI", TRUE, "positive")>> ELSE <<>>)
                \o <<Row("ChatGPT", TRUE, "NULL", TextMarkup, TextPlain)>>
                \o (IF two THEN <<Row("Gemini", TRUE, "NULL", TextPlain, TextPlain)>>
                    ELSE <<>>)
          /\ brand_mentions = IF sample THEN SampleMention :> 1 ELSE NoMentions

NextBatch ==
    \/ BatchSelect
    \/ BatchProcess
    \/ BatchEnd

SpecBatch == InitBatch /\ [][NextBatch]_vars

----------------------------------------------------------------------------
(* Two cycles with the store changing in between, outside of what the rules
   look at: responses from before the window are purged or analysed, responses
   of a source no rule names come in, and mentions of either are inserted.
   WindowStore(loud, old, other, hot) holds four responses of the rules'
   sources in the window (with `loud` every rule has something to report),
   before them `old` responses of ChatGPT from before the window and after
   them `other` responses of TestAI; with `hot` these are negative, match the
   keyword rule and carry 25 mentions each. *)

WindowStore(loud, old, other, hot) ==
    LET outside(ai, recent) ==
            Row(ai, recent, IF hot THEN "negative" ELSE "neutral",
                IF hot THEN TextRival ELSE TextPlain, TextPlain)
        inside ==
            <<Row("ChatGPT", TRUE, "negative", IF loud THEN TextRival ELSE TextPlain,
                  TextPlain),
              PlainRow("ChatGPT", TRUE, "negative"),
              PlainRow("ChatGPT", TRUE, IF loud THEN "negative" ELSE "neutral"),
              PlainRow("Gemini", TRUE, "neutral")>>
        outside_ids == (1..old) \cup ((old + 5)..(old + 4 + other))
    IN  [ai_responses |->
             Copies(outside("ChatGPT", FALSE), old) \o inside
             \o Copies(outside("TestAI", TRUE), other),
         brand_mentions |->
             Mentions([m \in {Key(i, Python) : i \in outside_ids \cup {old + 4}} |->
                          IF m.ai_response_id = old + 4 THEN (IF loud THEN 15 ELSE 9)
                          ELSE IF hot THEN 25 ELSE 0])]

InScope(row) == row.recent /\ row.ai_name \in Range(Sources)

\* the responses in the window from the rules' sources, in order, and their
\* mentions
Scope(store) ==
    LET ids == {i \in DOMAIN store.ai_responses : InScope(store.ai_responses[i])}
        rank(i) == Cardinality({j \in ids : j <= i})
    IN  [rows |-> SelectSeq(store.ai_responses, InScope),
         mentions |-> {<<rank(m.ai_response_id), m.brand_name, store.brand_mentions[m]>>
                       : m \in {m \in DOMAIN store.brand_mentions : m.ai_response_id \in ids}}]

\* between the first cycle and the second the store changes outside the scope
ChangeOutside ==
    /\ pc = "idle"
    /\ cycles = 1
    /\ \E loud, hot \in BOOLEAN, old, other \in 0..2 :
          LET store == WindowStore(loud, old, other, hot)
          IN  /\ Scope(store) = Scope(TheStore)
              /\ store # TheStore
              /\ ai_responses' = store.ai_responses
              /\ brand_mentions' = store.brand_mentions
    /\ UNCHANGED <<alert_logs, alert_rules, outbox, pc, idx, alert, results, ops, cycles,
                   faults, schedule, first>>
    /\ UNCHANGED analyzerVars
    /\ UNCHANGED processorVars

InitWindow ==
    /\ InitIdle
    /\ InitAnalyzerIdle
    /\ InitTextIdle
    /\ InitDetectorIdle
    /\ InitPipelineIdle
    /\ sentiment_analyzer = Some("pipeline")
    /\ schedule = "repeat"
    /\ \E loud \in BOOLEAN, active \in [1..3 -> BOOLEAN] :
          /\ ai_responses = WindowStore(loud, 1, 1, FALSE).ai_responses
          /\ brand_mentions = WindowStore(loud, 1, 1, FALSE).brand_mentions
          /\ alert_rules = Rules(Rat(7, 10), Rat(10, 1), Rat(1, 1), active)

NextWindow ==
    \/ StartCycle
    \/ SkipInactive
    \/ CheckSentiment
    \/ CheckMention
    \/ CheckKeyword
    \/ SendAlertEmail
    \/ LogAlert
    \/ EndCycle
    \/ ChangeOutside

SpecWindow == InitWindow /\ [][NextWindow]_vars

----------------------------------------------------------------------------
(* Connections to the relational store.  batch_process_unprocessed_responses
   connects for its SELECT and loops over the fetched responses inside that
   with block: its connection, and the transaction the SELECT began, stay
   open until the loop is through.  _update_database connects again for each
   response. *)

\* connections held between two steps of the batch
BatchConnection == IF batch.pc = "loop" THEN 1 ELSE 0

\* the connection of an _update_database call made in this step: a call that
\* committed had connected
UpdateConnection ==
    IF /\ Len(pipeline_ops') = Len(pipeline_ops) + 1
       /\ pipeline_ops'[Len(pipeline_ops')].committed
    THEN 1
    ELSE 0

----------------------------------------------------------------------------
(* What the store holds, stated on the tables themselves. *)

InWindowOf(a) ==
    {i \in DOMAIN ai_responses : ai_responses[i].recent /\ ai_responses[i].ai_name = a}

NegativeOf(a) == {i \in InWindowOf(a) : ai_responses[i].response_sentiment = "negative"}

MentionsOf(b, a) ==
    SumCopies(brand_mentions,
              {m \in DOMAIN brand_mentions :
                  m.brand_name = b /\ m.ai_response_id \in InWindowOf(a)})

MatchingOf(rule) ==
    {i \in DOMAIN ai_responses :
        /\ ai_responses[i].recent
        /\ ai_responses[i].ai_name \in Range(rule.ai_sources)
        /\ \E n \in DOMAIN rule.brand_keywords :
              \/ IsSubstring(LowerText(rule.brand_keywords[n]),
                             LowerText(ai_responses[i].response_text))
              \/ IsSubstring(LowerText(rule.brand_keywords[n]),
                             LowerText(ai_responses[i].query_text))}

SentimentDue(rule) ==
    \E a \in Range(rule.ai_sources) :
        /\ Cardinality(InWindowOf(a)) > 0
        /\ Cardinality(NegativeOf(a)) * rule.threshold.den
              >= rule.threshold.num * Cardinality(InWindowOf(a))

MentionDue(rule) ==
    \E b \in Range(rule.brand_keywords), a \in Range(rule.ai_sources) :
        MentionsOf(b, a) * rule.threshold.den >= rule.threshold.num

KeywordDue(rule) ==
    Cardinality(MatchingOf(rule)) * rule.threshold.den >= rule.threshold.num

Queries(type) ==
    {i \in DOMAIN ops :
        ops[i].op = "query" /\ alert_rules[ops[i].rule].condition_type = type}

RuleNamed(name) == CHOOSE r \in Range(alert_rules) : r.name = name

\* every Alert built so far: the one in hand and those handed to the notifier
AlertsBuilt == Range(alert) \cup {outbox[i].alert : i \in DOMAIN outbox}

AlertsOf(type) == {a \in AlertsBuilt : RuleNamed(a.rule_name).condition_type = type}

OpsOf(r, op) == {i \in DOMAIN ops : ops[i].rule = r /\ ops[i].op = op}

CycleDone == pc = "idle" /\ cycles >= 1

----------------------------------------------------------------------------
\* C1: when its query succeeds, check_sentiment_threshold returns an Alert if and
\* only if some AI source of the rule has responses in the window and
\* negative_count / total_count >= rule.threshold; a source without responses
\* in the window never alerts, and nothing is raised.
C1_SentimentAlertIff ==
    /\ pc # "crashed"
    /\ \A i \in Queries("sentiment_threshold") :
          ops[i].ok => (ops[i].alerted <=> SentimentDue(alert_rules[ops[i].rule]))
    /\ \A a \in AlertsOf("sentiment_threshold") : Cardinality(InWindowOf(a.data.ai_name)) > 0

\* scenario 1: 2 negative of 3 from ChatGPT, none from Gemini, threshold 0.7: no Alert
C1_Witness ==
    /\ Cardinality(InWindowOf("ChatGPT")) = 3
    /\ Cardinality(NegativeOf("ChatGPT")) = 2
    /\ Cardinality(InWindowOf("Gemini")) = 0
    /\ \E i \in Queries("sentiment_threshold") :
          /\ alert_rules[ops[i].rule].threshold = Rat(7, 10)
          /\ ops[i].ok
          /\ ~ops[i].alerted

\* C2: every Alert of check_sentiment_threshold carries the counts of its source
\* in the window, their ratio is at least the threshold, and its severity is
\* "high" if and only if the ratio is at least 0.8, "medium" otherwise.
C2_SentimentSeverity ==
    \A a \in AlertsOf("sentiment_threshold") :
        LET t == Cardinality(InWindowOf(a.data.ai_name))
            n == Cardinality(NegativeOf(a.data.ai_name))
        IN  /\ a.data.total_count = t
            /\ a.data.negative_count = n
            /\ n * RuleNamed(a.rule_name).threshold.den
                  >= RuleNamed(a.rule_name).threshold.num * t
            /\ a.severity \in {"high", "medium"}
            /\ a.severity = "high" <=> 10 * n >= 8 * t

\* the boundary: 4 negative of 5 is exactly 0.8 and "high"
C2_Witness ==
    \E a \in AlertsOf("sentiment_threshold") :
        /\ a.data.negative_count = 4
        /\ a.data.total_count = 5
        /\ a.severity = "high"

\* C3: when its query succeeds, check_mention_count returns an Alert if and only
\* if some (brand, AI source) pair of the rule has at least rule.threshold
\* mentions in the window; the Alert carries the count of its pair, and its
\* severity is "high" if and only if that count is at least 20, "medium"
\* otherwise.
C3_MentionAlertAndSeverity ==
    /\ \A i \in Queries("mention_count") :
          ops[i].ok => (ops[i].alerted <=> MentionDue(alert_rules[ops[i].rule]))
    /\ \A a \in AlertsOf("mention_count") :
          /\ a.data.mention_count = MentionsOf(a.data.brand_name, a.data.ai_name)
          /\ a.data.mention_count * RuleNamed(a.rule_name).threshold.den
                >= RuleNamed(a.rule_name).threshold.num
          /\ a.severity \in {"high", "medium"}
          /\ a.severity = "high" <=> a.data.mention_count >= 20

\* scenario 3: 15 mentions by Gemini, threshold 10: "medium"
C3_Witness ==
    \E a \in AlertsOf("mention_count") :
        /\ a.data.mention_count = 15
        /\ a.data.ai_name = "Gemini"
        /\ RuleNamed(a.rule_name).threshold = Rat(10, 1)
        /\ a.severity = "medium"

\* C4: when its query succeeds, check_keyword_detection returns an Alert if and
\* only if the number of responses in the window, from the rule's AI sources,
\* whose response text or query text matches a keyword of the rule is at least
\* rule.threshold, for every threshold and every number of matching responses.
C4_KeywordAlertIff ==
    \A i \in Queries("keyword_detection") :
        ops[i].ok => (ops[i].alerted <=> KeywordDue(alert_rules[ops[i].rule]))

\* C5: a rule with is_active = FALSE causes no store query, no Alert, no
\* notification and no alert-log entry, whatever the store holds.
C5_InactiveNeverTriggers ==
    \A r \in DOMAIN alert_rules :
        ~alert_rules[r].is_active =>
            /\ \A i \in DOMAIN ops : ops[i].rule # r
            /\ \A a \in AlertsBuilt : a.rule_name # alert_rules[r].name
            /\ \A i \in DOMAIN outbox : outbox[i].alert.rule_name # alert_rules[r].name
            /\ \A i \in DOMAIN alert_logs : alert_logs[i].rule_name # alert_rules[r].name

\* a cycle is through in which the mention rule, switched off, had 15 mentions
\* to report and the keyword rule after it was logged
C5_Witness ==
    /\ CycleDone
    /\ ~alert_rules[2].is_active
    /\ MentionDue(alert_rules[2])
    /\ \E i \in DOMAIN alert_logs : alert_logs[i].rule_name = alert_rules[3].name

FirstDue(rows, due(_)) ==
    {k \in DOMAIN rows : due(rows[k]) /\ \A j \in 1..(k - 1) : ~due(rows[j])}

\* C6: a rule gives at most one Alert, one notification and one log entry per
\* cycle; for sentiment_threshold and mention_count the Alert is built from the
\* first row, in the order the store returned them, that qualifies.
C6_FirstQualifyingRowOnly ==
    /\ \A r \in DOMAIN alert_rules :
          /\ Cardinality(OpsOf(r, "query")) <= 1
          /\ Cardinality(OpsOf(r, "send")) <= 1
          /\ Cardinality(OpsOf(r, "log")) <= 1
    /\ Len(outbox) <= (cycles + 1) * Len(alert_rules)
    /\ (pc \in {"send", "log"} /\ Rule.condition_type = "sentiment_threshold") =>
          LET due(row) == /\ row.total_count > 0
                          /\ row.negative_count * Rule.threshold.den
                                >= Rule.threshold.num * row.total_count
          IN  \E k \in FirstDue(results, due) :
                 /\ alert[1].data.ai_name = results[k].ai_name
                 /\ alert[1].data.total_count = results[k].total_count
                 /\ alert[1].data.negative_count = results[k].negative_count
    /\ (pc \in {"send", "log"} /\ Rule.condition_type = "mention_count") =>
          LET due(row) == row.mention_count * Rule.threshold.den >= Rule.threshold.num
          IN  \E k \in FirstDue(results, due) :
                 /\ alert[1].data.ai_name = results[k].ai_name
                 /\ alert[1].data.brand_name = results[k].brand_name
                 /\ alert[1].data.mention_count = results[k].mention_count

\* two sources qualify, the Alert is about the first and is being sent
C6_Witness ==
    /\ pc = "send"
    /\ Rule.condition_type = "sentiment_threshold"
    /\ Len(results) = 2
    /\ \A k \in DOMAIN results :
          results[k].negative_count * Rule.threshold.den
             >= Rule.threshold.num * results[k].total_count
    /\ alert[1].data.ai_name = results[1].ai_name

\* what a rule reports when its query goes through
Reports(rule) ==
    CASE rule.condition_type = "sentiment_threshold" -> SentimentDue(rule)
      [] rule.condition_type = "mention_count" -> MentionDue(rule)
      [] rule.condition_type = "keyword_detection" ->
            LET n == Cardinality(MatchingOf(rule))
            IN  (IF n < KeywordLimit THEN n ELSE KeywordLimit) * rule.threshold.den
                   >= rule.threshold.num

\* C7: a store failure during the evaluation of a rule gives no Alert for that
\* rule and raises nothing; every other active rule of the cycle is evaluated
\* and alerts exactly as it does without the failure.
C7_StoreFailureSkipsOneRule ==
    /\ pc # "crashed"
    /\ \A i \in DOMAIN ops :
          ops[i].op = "query" =>
              /\ ~ops[i].ok => /\ ~ops[i].alerted
                               /\ OpsOf(ops[i].rule, "send") = {}
                               /\ OpsOf(ops[i].rule, "log") = {}
              /\ ops[i].ok => (ops[i].alerted <=> Reports(alert_rules[ops[i].rule]))
    /\ CycleDone =>
          \A r \in DOMAIN alert_rules :
              alert_rules[r].is_active => Cardinality(OpsOf(r, "query")) = 1

\* the query of the first rule failed although it had something to report, and
\* the rules after it were evaluated, the last one alerting
C7_Witness ==
    /\ CycleDone
    /\ \E i \in OpsOf(1, "query") : ~ops[i].ok /\ Reports(alert_rules[1])
    /\ \E i \in OpsOf(2, "query") : ops[i].ok
    /\ \E i \in OpsOf(3, "query") : ops[i].ok /\ ops[i].alerted

\* C8: a failure of the mail transport or of the alert-log append raises nothing
\* and does not abort the cycle: the log append is still attempted after a
\* failed notification, and every active rule after it in configured order is
\* evaluated and dispatched.
C8_DeliveryFailureDoesNotAbort ==
    \A i \in DOMAIN ops :
        (ops[i].op \in {"send", "log"} /\ ~ops[i].ok) =>
            /\ pc # "crashed"
            /\ (ops[i].op = "send" /\ pc = "loop") => OpsOf(ops[i].rule, "log") # {}
            /\ CycleDone =>
                  \A r \in DOMAIN alert_rules :
                      (r > ops[i].rule /\ alert_rules[r].is_active) =>
                          /\ Cardinality(OpsOf(r, "query")) = 1
                          /\ \A q \in OpsOf(r, "query") :
                                ops[q].alerted =>
                                    /\ OpsOf(r, "send") # {}
                                    /\ OpsOf(r, "log") # {}

\* mail and log both failed for the first rule's Alert, and the third rule's
\* Alert was sent and logged after that
C8_Witness ==
    /\ CycleDone
    /\ \E i \in OpsOf(1, "send") : ~ops[i].ok
    /\ \E i \in OpsOf(1, "log") : ~ops[i].ok
    /\ \E i \in OpsOf(3, "send") : ops[i].ok
    /\ \E i \in OpsOf(3, "log") : ops[i].ok
    /\ \E i \in DOMAIN alert_logs : alert_logs[i].rule_name = alert_rules[3].name

FaultFree == \A i \in DOMAIN ops : ops[i].ok

\* C9 as stated: a second run_alert_checks against unchanged data (nothing
\* failing in either run) leaves the alert log and the notifications sent as
\* the first left them.
C9_Idempotent ==
    (pc = "idle" /\ cycles = 2 /\ first.clean /\ FaultFree) =>
        /\ alert_logs = first.alert_logs
        /\ outbox = first.outbox

\* C9 as amended: run_alert_checks keeps the entries it finds, and a second run
\* against unchanged data in the window, with no store or transport failure in
\* either run, repeats the first: it sends one more notification and appends one more log
\* entry for every rule the first run did, in the same order.
C9_SecondRunRepeatsFirst ==
    (pc = "idle" /\ cycles = 2 /\ first.clean /\ FaultFree) =>
        LET n == Len(first.alert_logs)
        IN  /\ Len(alert_logs) = 2 * n
            /\ Len(outbox) = 2 * Len(first.outbox)
            /\ \A k \in 1..n :
                  /\ alert_logs[k] = first.alert_logs[k]
                  /\ alert_logs[n + k].rule_name = alert_logs[k].rule_name
                  /\ alert_logs[n + k].timestamp # alert_logs[k].timestamp

\* two fault-free runs, each with at least two Alerts
C9_Witness ==
    /\ pc = "idle"
    /\ cycles = 2
    /\ first.clean
    /\ FaultFree
    /\ Len(first.alert_logs) >= 2
    /\ Len(alert_logs) = 2 * Len(first.alert_logs)

\* C10: analyze_sentiment raises nothing, and when the sentiment pipeline is
\* not loaded or fails on the text the result is exactly
\* {positive: 0.33, negative: 0.33, neutral: 0.34}.
C10_SentimentFallback ==
    call.called =>
        /\ ~call.raised
        /\ (sentiment_analyzer = None \/ backend.kind # "scores") =>
              call.value = [positive |-> 33, negative |-> 33, neutral |-> 34]

\* the pipeline is loaded and raised on the text
C10_Witness ==
    /\ call.called
    /\ sentiment_analyzer # None
    /\ backend.kind = "raise"
    /\ call.value = [positive |-> 33, negative |-> 33, neutral |-> 34]

\* C11: no extraction operation of TextAnalyzer (extract_entities,
\* analyze_sentiment, extract_topics, get_text_embedding) raises: with a missing
\* backend or a backend that fails on the input each returns its default, the
\* empty sequence, the fallback distribution, the empty list, none.
C11_NoExtractionRaises ==
    /\ extraction.called =>
          /\ ~extraction.raised
          /\ (request.op = "extract_entities" /\ (nlp = None \/ request.doc.raised)) =>
                extraction.value = <<>>
          /\ (request.op = "extract_topics" /\ request.sklearn.raised) =>
                extraction.value = <<>>
          /\ (request.op = "get_text_embedding"
              /\ (sentence_model = None \/ request.encoded.raised)) =>
                extraction.value = None
    /\ call.called =>
          /\ ~call.raised
          /\ (sentiment_analyzer = None \/ backend.kind # "scores") =>
                call.value = [positive |-> 33, negative |-> 33, neutral |-> 34]

\* the configured keywords that occur, lower-cased, in the lower-cased text
Occurring == {i \in DOMAIN config : IsSubstring(lower(config[i]), lower(text))}

\* the k-th of them in configured order
Nth(S, k) == CHOOSE i \in S : Cardinality({j \in S : j <= i}) = k

\* C12: detect_mentions returns exactly one mention for each configured brand
\* keyword whose lower-cased form is a substring of the lower-cased text, in
\* configured keyword order, and none for any other keyword, however often a
\* keyword occurs in the text.
C12_OneMentionPerKeyword ==
    detected.called =>
        /\ ~detected.raised
        /\ Len(detected.value) = Cardinality(Occurring)
        /\ \A k \in DOMAIN detected.value :
              detected.value[k].brand_name = lower(config[Nth(Occurring, k)])

\* "ACME Py acme" with the keywords Acme and Python: two mentions, acme first
C12_Witness ==
    /\ detected.called
    /\ text = TextTwice
    /\ config = <<Acme, Python>>
    /\ Len(detected.value) = 2
    /\ detected.value[1].brand_name = <<"a", "c", "m", "e">>
    /\ detected.value[2].brand_name = <<"p", "y">>

\* the text contains a match of the pattern the pipeline takes links by
ContainsUrl(t) == \E i \in DOMAIN t : UrlLen(t, i) > 0

\* C13: for every mention returned by detect_mentions, mention_type is "link" if
\* the text contains an http(s) URL and "direct" otherwise; "implied" is never
\* returned.
C13_LinkIffUrl ==
    detected.called =>
        \A k \in DOMAIN detected.value :
            detected.value[k].mention_type = (IF ContainsUrl(text) THEN "link" ELSE "direct")

\* C14: all mentions returned by one detect_mentions call carry the same
\* sentiment label and the same scores, also when the sentiment backend fails
\* on some of its invocations during that call.
C14_SameSentiment ==
    detected.called =>
        \A j, k \in DOMAIN detected.value :
            /\ detected.value[j].sentiment = detected.value[k].sentiment
            /\ detected.value[j].sentiment_scores = detected.value[k].sentiment_scores

\* the least index (from 0) of the text at which the keyword starts when case
\* is ignored, -1 if there is none
FirstPosition(t, k) ==
    LET hits == {p \in 0..Len(t) : StartsWith(lower(Slice(t, p, Len(t))), 1, k)}
    IN  IF hits = {} THEN -1 ELSE CHOOSE p \in hits : \A q \in hits : p <= q

\* C19: with the keyword first found (ignoring case) at position p of the text,
\* a mention's context is the text from max(0, p - 100) to
\* min(len(text), p + len(keyword) + 100); it contains that occurrence and is
\* at most len(keyword) + 200 characters long.
C19_ContextWindow ==
    detected.called =>
        \A n \in DOMAIN detected.value :
            LET keyword == detected.value[n].brand_name
                context == detected.value[n].context
                p == FirstPosition(text, keyword)
            IN  /\ p >= 0
                /\ context = Slice(text, Max(0, p - 100),
                                   Min(Len(text), p + Len(keyword) + 100))
                /\ IsSubstring(keyword, lower(context))
                /\ Len(context) <= Len(keyword) + 200

\* the rows equal to `row` that the committed calls up to the n-th inserted
RECURSIVE CommittedCopies(_, _)
CommittedCopies(row, n) ==
    IF n = 0 THEN 0
    ELSE CommittedCopies(row, n - 1)
         + (IF pipeline_ops[n].committed
            THEN Cardinality({k \in DOMAIN pipeline_ops[n].mentions :
                                 pipeline_ops[n].mentions[k] = row})
            ELSE 0)

\* the rows the store held before the pipeline ran
Seeded(row) == IF row = SampleMention /\ ai_responses[1].ai_name = "TestAI" THEN 1 ELSE 0

CopiesOf(row) == IF row \in DOMAIN brand_mentions THEN brand_mentions[row] ELSE 0

\* C15: after any sequence of process_ai_response and batch calls, also with
\* store updates failing midway, every persisted brand mention references a
\* response whose sentiment is set; the sentiment update and the mention
\* inserts of one call are committed together or not at all.
C15_MentionsOnlyOnAnalysedResponses ==
    /\ \A m \in DOMAIN brand_mentions :
          /\ m.ai_response_id \in DOMAIN ai_responses
          /\ ai_responses[m.ai_response_id].response_sentiment # "NULL"
    /\ \A i \in DOMAIN ai_responses :
          /\ ai_responses[i].response_links # None <=>
                \E n \in DOMAIN pipeline_ops :
                    pipeline_ops[n].response_id = i /\ pipeline_ops[n].committed
          /\ (ai_responses[i].response_links = None /\ ai_responses[i].ai_name # "TestAI") =>
                ai_responses[i].response_sentiment = "NULL"
    /\ \A row \in DOMAIN brand_mentions
                  \cup UNION {Range(pipeline_ops[n].mentions) : n \in DOMAIN pipeline_ops} :
          CopiesOf(row) = Seeded(row) + CommittedCopies(row, Len(pipeline_ops))

\* a call that failed after its UPDATE had been executed left nothing behind,
\* and a call on another response was committed
C15_Witness ==
    /\ \E n \in DOMAIN pipeline_ops :
          /\ pipeline_ops[n].midway
          /\ Len(pipeline_ops[n].mentions) = 2
          /\ ai_responses[pipeline_ops[n].response_id].response_sentiment = "NULL"
          /\ \A m \in DOMAIN brand_mentions :
                m.ai_response_id # pipeline_ops[n].response_id
    /\ \E n \in DOMAIN pipeline_ops : pipeline_ops[n].committed

\* C16: when a keyword_detection Alert is built and the response text of the
\* newest match is longer than 200 characters, the latest-response field of
\* the payload is exactly the first 200 characters of that text followed by an
\* ellipsis.
C16_LatestTruncated ==
    \A a \in AlertsOf("keyword_detection") :
        LET matching == MatchingOf(RuleNamed(a.rule_name))
            newest == CHOOSE i \in matching : \A j \in matching : j <= i
            t == ai_responses[newest].response_text
        IN  (matching # {} /\ Len(t) > 200) =>
                /\ Len(a.data.latest) = 203
                /\ \A i \in 1..200 : a.data.latest[i] = t[i]
                /\ \A i \in 201..203 : a.data.latest[i] = "."

\* the newest match has 201 characters and the older one 3
C16_Witness ==
    \E a \in AlertsOf("keyword_detection") :
        /\ Len(ai_responses) = 2
        /\ Len(ai_responses[2].response_text) = 201
        /\ Len(ai_responses[1].response_text) = 3
        /\ Len(a.data.latest) = 203

\* C17: for every text and every output of the sentiment backend, the mapping
\* analyze_sentiment returns has exactly the three keys positive, negative and
\* neutral.
C17_ExactlyThreeKeys ==
    call.called => DOMAIN call.value = {"positive", "negative", "neutral"}

\* C18: extract_topics(texts, k) returns exactly k groups of terms for every
\* non-empty batch of texts and every k >= 1, also for batches with fewer than
\* k texts; it returns the empty list only when an internal step (the
\* vectorizer, the clustering) fails, and it never raises.
C18_ExactlyKTopics ==
    (extraction.called /\ request.op = "extract_topics"
     /\ Len(request.texts) >= 1 /\ request.n_topics >= 1) =>
        /\ ~extraction.raised
        /\ (~request.sklearn.raised /\ request.sklearn.n_features > 0) =>
              Len(extraction.value) = request.n_topics
        /\ extraction.value = <<>> =>
              (request.sklearn.raised \/ request.sklearn.n_features = 0)

\* C20: the alert log is append-only: no step of any cycle modifies or removes
\* an existing entry, and each Alert whose log-append succeeds adds exactly
\* one entry, carrying that Alert's rule_name, message, severity and data;
\* nothing else adds an entry.
C20_LogAppendOnly ==
    [][/\ \A k \in DOMAIN alert_logs :
             k \in DOMAIN alert_logs' /\ alert_logs'[k] = alert_logs[k]
       /\ IF pc = "log" /\ ops'[Len(ops')].ok
          THEN /\ Len(alert_logs') = Len(alert_logs) + 1
               /\ alert_logs'[Len(alert_logs')].rule_name = alert[1].rule_name
               /\ alert_logs'[Len(alert_logs')].message = alert[1].message
               /\ alert_logs'[Len(alert_logs')].severity = alert[1].severity
               /\ alert_logs'[Len(alert_logs')].data
                     = {<<k, alert[1].data[k]>> : k \in DOMAIN alert[1].data}
          ELSE Len(alert_logs') = Len(alert_logs)]_vars

\* two cycles are through, the log holds entries of both, and one append of
\* the second cycle failed
C20_Witness ==
    /\ pc = "idle"
    /\ cycles = 2
    /\ \E j, k \in DOMAIN alert_logs :
          alert_logs[j].timestamp = 0 /\ alert_logs[k].timestamp = 1
    /\ \E i \in DOMAIN ops : ops[i].op = "log" /\ ~ops[i].ok
    /\ Len(alert_logs) = Len(outbox) - 1

\* C21: a rule whose condition_type is none of sentiment_threshold,
\* mention_count and keyword_detection makes the construction of the engine
\* fail: no cycle is ever started, or has run, with such a rule in the list.
C21_NoCycleWithMalformedRule ==
    (pc # "idle" \/ cycles > 0) =>
        \A r \in DOMAIN alert_rules : alert_rules[r].condition_type \in ConditionTypes

\* C22: across the runs of batch_process_unprocessed_responses the analysis
\* fields of a response are written at most once: a response whose sentiment
\* is set is not selected by a later run, process_ai_response is not called on
\* it, its row stays as it is, and no mention is inserted for it again.
C22_AnalysisWrittenOnce ==
    [][/\ DOMAIN ai_responses' = DOMAIN ai_responses
       /\ \A i \in DOMAIN ai_responses :
             ai_responses[i].response_sentiment # "NULL" =>
                 /\ ai_responses'[i] = ai_responses[i]
                 /\ \A m \in DOMAIN brand_mentions' :
                       m.ai_response_id = i =>
                           /\ m \in DOMAIN brand_mentions
                           /\ brand_mentions'[m] = brand_mentions[m]
       /\ (batch.pc = "idle" /\ batch'.pc = "loop") =>
             \A j \in DOMAIN batch'.responses :
                 ai_responses[batch'.responses[j].id].response_sentiment = "NULL"
       /\ Len(pipeline_ops') > Len(pipeline_ops) =>
             ai_responses[pipeline_ops'[Len(pipeline_ops')].response_id].response_sentiment
                 = "NULL"]_vars

\* the update of a response failed in one run, a later run selected the
\* response again and committed its analysis with two mentions
C22_Witness ==
    /\ batch.pc = "idle"
    /\ \E n, m \in DOMAIN pipeline_ops :
          /\ n < m
          /\ pipeline_ops[n].response_id = pipeline_ops[m].response_id
          /\ pipeline_ops[n].analysed
          /\ ~pipeline_ops[n].committed
          /\ pipeline_ops[m].committed
          /\ Len(pipeline_ops[m].mentions) = 2
          /\ ai_responses[pipeline_ops[m].response_id].response_sentiment = "negative"
          /\ \A row \in Range(pipeline_ops[m].mentions) : CopiesOf(row) = 1

\* C23: only the responses in the trailing hour from the rule's ai_sources,
\* and their mentions, count in a rule's evaluation: when responses and
\* mentions outside that window or of other sources are added, removed or
\* changed between two cycles (nothing failing in either), the second cycle
\* has the same rules alerting as the first, with Alerts of the same content.
C23_OnlyWindowAndSourcesCount ==
    (pc = "idle" /\ cycles = 2 /\ first.clean /\ FaultFree) =>
        /\ Len(outbox) = 2 * Len(first.outbox)
        /\ \A k \in DOMAIN first.outbox :
              LET before == outbox[k].alert
                  after == outbox[Len(first.outbox) + k].alert
              IN  /\ before = first.outbox[k].alert
                  /\ after.rule_name = before.rule_name
                  /\ after.message = before.message
                  /\ after.severity = before.severity
                  /\ after.data = before.data

\* all three rules alerted in the first cycle, run beside one quiet response
\* from before the window and one of another source; the second cycle ran
\* beside two of each, negative, matching the keywords and with 25 mentions
C23_Witness ==
    /\ pc = "idle"
    /\ cycles = 2
    /\ first.clean
    /\ FaultFree
    /\ Len(first.outbox) = 3
    /\ Len(outbox) = 6
    /\ Len(ai_responses) = 8
    /\ ai_responses[1].response_sentiment = "negative"
    /\ ~ai_responses[1].recent
    /\ ai_responses[8].ai_name = "TestAI"
    /\ Key(1, Python) \in DOMAIN brand_mentions
    /\ Key(8, Python) \in DOMAIN brand_mentions

\* C24: every mention the pipeline persists for a configured brand keyword K on
\* a response in the window from source S is counted by check_mention_count
\* for a rule whose brand_keywords contains K and whose ai_sources contains S:
\* the rule's query gives a row for the stored brand_name and S.
C24_PersistedMentionsCounted ==
    \A n \in DOMAIN pipeline_ops, r \in DOMAIN alert_rules, k \in DOMAIN config :
        \A m \in Range(pipeline_ops[n].mentions) :
            (/\ pipeline_ops[n].committed
             /\ m.brand_name = lower(config[k])
             /\ config[k] \in Range(alert_rules[r].brand_keywords)
             /\ ai_responses[m.ai_response_id].recent
             /\ ai_responses[m.ai_response_id].ai_name \in Range(alert_rules[r].ai_sources))
            => \E row \in windowed_mention_counts(alert_rules[r]) :
                  /\ row.brand_name = m.brand_name
                  /\ row.ai_name = ai_responses[m.ai_response_id].ai_name
                  /\ row.mention_count >= 1

\* C25: for a response whose raw text contains an http(s) URL and a brand
\* keyword outside the URL, the mention process_ai_response persists has
\* mention_type "link", the type detect_mentions gives on the raw text.
C25_PersistedTypeIsLink ==
    \A n \in DOMAIN pipeline_ops :
        pipeline_ops[n].committed =>
            LET raw == ai_responses[pipeline_ops[n].response_id].response_text
            IN  \A m \in Range(pipeline_ops[n].mentions) :
                    (/\ ContainsUrl(raw)
                     /\ IsSubstring(m.brand_name, lower(RemoveUrls(raw, 1))))
                    => /\ m.mention_type = "link"
                       /\ m.mention_type = _classify_mention_type(raw, m.brand_name)
                       /\ CopiesOf(m) >= 1

SendOps == {i \in DOMAIN ops : ops[i].op = "send"}

\* the notification attempt that the i-th operation of the cycle, a send, made
SentBy(i) == outbox[Len(outbox) - Cardinality({j \in SendOps : j >= i}) + 1]

\* C26: for every Alert built in a cycle exactly one notification to the
\* recipients of the rule that produced it is attempted, and right after it
\* exactly one append to the alert log, also when the notification failed;
\* neither is attempted again in the cycle, and neither without an Alert.
C26_OneSendThenOneLog ==
    /\ \A i \in DOMAIN ops :
          (ops[i].op = "query" /\ ops[i].alerted) =>
              /\ IF i + 1 \in DOMAIN ops
                 THEN ops[i + 1].op = "send" /\ ops[i + 1].rule = ops[i].rule
                 ELSE pc = "send" /\ idx = ops[i].rule
              /\ IF i + 2 \in DOMAIN ops
                 THEN ops[i + 2].op = "log" /\ ops[i + 2].rule = ops[i].rule
                 ELSE pc \in {"send", "log"} /\ idx = ops[i].rule
              /\ Cardinality(OpsOf(ops[i].rule, "send")) <= 1
              /\ Cardinality(OpsOf(ops[i].rule, "log")) <= 1
    /\ \A i \in DOMAIN ops :
          /\ ops[i].op = "send" =>
                /\ i - 1 \in DOMAIN ops
                /\ ops[i - 1].op = "query" /\ ops[i - 1].alerted
                /\ ops[i - 1].rule = ops[i].rule
                /\ SentBy(i).to = alert_rules[ops[i].rule].email_recipients
                /\ SentBy(i).to # <<>>
                /\ SentBy(i).alert.rule_name = alert_rules[ops[i].rule].name
                /\ SentBy(i).delivered = ops[i].ok
          /\ ops[i].op = "log" =>
                /\ i - 1 \in DOMAIN ops
                /\ ops[i - 1].op = "send"
                /\ ops[i - 1].rule = ops[i].rule
    /\ Len(outbox) >= Cardinality(SendOps)

\* the notification of the first rule's Alert failed, its log append was made
\* and went through, and the cycle is over
C26_Witness ==
    /\ CycleDone
    /\ \E i \in OpsOf(1, "query") :
          /\ ops[i].alerted
          /\ ops[i + 1].op = "send" /\ ~ops[i + 1].ok
          /\ ops[i + 2].op = "log" /\ ops[i + 2].ok
    /\ \E k \in DOMAIN alert_logs :
          alert_logs[k].rule_name = alert_rules[1].name /\ alert_logs[k].timestamp = cycles - 1
    /\ \E k \in DOMAIN outbox : ~outbox[k].delivered

\* the rules are gone through in configured order, each active one evaluated
\* once, and what an Alert asks for is done before the next rule is evaluated
InOrder ==
    /\ \A i, j \in DOMAIN ops : i < j => ops[i].rule <= ops[j].rule
    /\ \A r \in DOMAIN alert_rules :
          /\ Cardinality(OpsOf(r, "query")) <= 1
          /\ (pc \in {"loop", "send", "log"} /\ r > idx) =>
                \A i \in DOMAIN ops : ops[i].rule # r
          /\ ((pc = "loop" /\ r < idx) \/ CycleDone) =>
                Cardinality(OpsOf(r, "query")) = (IF alert_rules[r].is_active THEN 1 ELSE 0)
    /\ \A i, j \in DOMAIN ops :
          (i < j /\ ops[i].op = "query" /\ ops[i].alerted /\ ops[j].op = "query") =>
              /\ \E s \in OpsOf(ops[i].rule, "send") : s < j
              /\ \E l \in OpsOf(ops[i].rule, "log") : l < j

\* C27: run_alert_checks terminates whatever the store and the mail transport
\* do (success or error), having evaluated every active rule once, in
\* configured order, and having attempted the notification and the log append
\* of a rule's Alert before it evaluates the next rule.
C27_CycleTerminatesInOrder ==
    /\ []InOrder
    /\ (pc # "idle") ~> (pc = "idle")

\* a cycle is through in which all three rules alerted and as many operations
\* failed as may fail
C27_Witness ==
    /\ CycleDone
    /\ Len(ops) = 9
    /\ Cardinality({i \in DOMAIN ops : ~ops[i].ok}) = MaxFaults
    /\ \A r \in DOMAIN alert_rules : \E i \in OpsOf(r, "query") : ops[i].alerted

\* C28: a response is in the vector store only when its analysis is in the
\* relational store: no response of the collection has a NULL
\* response_sentiment, also after calls whose relational update failed.
C28_VectorOnlyAfterCommit ==
    \A id \in collection : ai_responses[id].response_sentiment # "NULL"

\* the responses of a source in the window that are not analysed yet
PendingOf(a) == {i \in InWindowOf(a) : ai_responses[i].response_sentiment = "NULL"}

OtherOf(a) ==
    {i \in InWindowOf(a) : ai_responses[i].response_sentiment \notin {"negative", "NULL"}}

\* C29: in the rows check_sentiment_threshold reads, total_count counts every
\* response of the source in the window whatever its sentiment, the ones not
\* yet analysed (NULL) included, negative_count counts those with sentiment
\* 'negative' only, so 0 <= negative_count <= total_count; the ratio the check
\* compares with the threshold has the unanalysed responses in its denominator.
C29_NullCountsInTotal ==
    /\ \A r \in DOMAIN alert_rules :
          alert_rules[r].condition_type = "sentiment_threshold" =>
             \A row \in windowed_sentiment_counts(alert_rules[r]) :
                 /\ row.total_count = Cardinality(NegativeOf(row.ai_name))
                                         + Cardinality(PendingOf(row.ai_name))
                                         + Cardinality(OtherOf(row.ai_name))
                 /\ row.negative_count = Cardinality(NegativeOf(row.ai_name))
                 /\ 0 <= row.negative_count
                 /\ row.negative_count <= row.total_count
    /\ \A i \in Queries("sentiment_threshold") :
          (ops[i].ok /\ ~ops[i].alerted) =>
             \A a \in Range(alert_rules[ops[i].rule].ai_sources) :
                 \/ InWindowOf(a) = {}
                 \/ Cardinality(NegativeOf(a)) * alert_rules[ops[i].rule].threshold.den
                       < alert_rules[ops[i].rule].threshold.num
                            * (Cardinality(NegativeOf(a)) + Cardinality(PendingOf(a))
                                 + Cardinality(OtherOf(a)))
    /\ \A a \in AlertsOf("sentiment_threshold") :
          a.data.total_count >= a.data.negative_count + Cardinality(PendingOf(a.data.ai_name))

\* 2 negative responses and 1 not yet analysed from ChatGPT, threshold 0.7: the
\* check ran and gave no Alert (2/3), although both analysed responses are
\* negative
C29_Witness ==
    /\ Cardinality(NegativeOf("ChatGPT")) = 2
    /\ Cardinality(PendingOf("ChatGPT")) = 1
    /\ OtherOf("ChatGPT") = {}
    /\ \E i \in Queries("sentiment_threshold") :
          /\ alert_rules[ops[i].rule].threshold = Rat(7, 10)
          /\ ops[i].ok
          /\ ~ops[i].alerted

\* C30: every store operation has a connection of its own and has released it
\* before the next store operation begins: while an analysis update holds its
\* connection no other connection is open.
C30_OneConnectionAtATime == [][BatchConnection + UpdateConnection <= 1]_vars

====
